---- MODULE Spec2Model ----
(***************************************************************************)
(* Model of the graph-structured retrieval core of avos-bot:               *)
(*   - HeaderBasedChunker.chunk_content   (helper/app/confluence_loader.py)*)
(*   - ConfluenceMongoDB.add_confluence_chunk and the ingestion loop of    *)
(*     main()                             (helper/app/confluence_loader.py)*)
(*   - rebuild_graph_structure            (helper/app/rebuild_graph.py)    *)
(*   - EnhancedGraphRAG._traverse_graph   (helper/app/graph_rag_enhanced.py)*)
(*   - the scoring and the search of EnhancedGraphRAG and the cosine       *)
(*     similarity of graph_based_retrieve and of search                    *)
(*                  (helper/app/graph_rag_enhanced.py, confluence_loader.py,*)
(*                   avosBot.py)                                           *)
(*   - reload_all and process_all_urls_background                          *)
(*                                         (helper/app/confluence_api.py)  *)
(*   - ConfluenceLoader.process_page_recursive                             *)
(*                                         (helper/app/confluence_loader.py)*)
(***************************************************************************)
EXTENDS Integers, Sequences, FiniteSets, TLC

(***************************************************************************)
(* Bounds of the model                                                     *)
(***************************************************************************)
\* number of pages of SpecStore
NumPages == 1
\* largest max_nodes argument of SpecTraverse
MaxMaxNodes == 5
\* largest max_depth argument of SpecTraverse
MaxMaxDepth == 2
\* most sections (a heading with or without a body) of a page of SpecStore
MaxSections == 2
\* most chunks of the page of SpecRebuild
MaxChunks == 11
\* number of requests POST /api/reload_all of SpecReload
NumRequests == 2
\* most urls in the manifest of SpecReload
MaxUrls == 2
\* number of pages of the site of SpecCrawl
NumSitePages == 4
\* largest max_depth of SpecCrawl
MaxCrawlDepth == 2
\* longest document (number of elements returned by find_all) of SpecChunk
MaxBlocks == 6
\* deepest heading tag (h1..hMaxLevel) occurring in the documents of SpecChunk
MaxLevel == 3
\* most body blocks between two headings in the documents of SpecOutline
MaxGap == 1

(***************************************************************************)
(* Program constants                                                       *)
(***************************************************************************)
\* current_headers = [None] * 6
NumLevels == 6

\* Python's None (comparable with records and with chunk ids)
None == <<>>

(***************************************************************************)
(* Generic helpers                                                         *)
(***************************************************************************)
SetMax(S) == CHOOSE x \in S : \A y \in S : y <= x

SetMin(S) == CHOOSE x \in S : \A y \in S : x <= y

RECURSIVE AscSeq(_)
\* the elements of a finite set of integers as an ascending sequence
AscSeq(S) == IF S = {} THEN <<>> ELSE <<SetMin(S)>> \o AscSeq(S \ {SetMin(S)})

Range(s) == {s[i] : i \in 1..Len(s)}

NoDuplicates(s) == \A i, j \in 1..Len(s) : i # j => s[i] # s[j]

RECURSIVE SeqsUpTo(_, _)
\* all sequences over S of length 0..n
SeqsUpTo(S, n) ==
  IF n = 0 THEN {<<>>}
  ELSE LET shorter == SeqsUpTo(S, n - 1)
       IN  shorter \cup {Append(s, x) : s \in {t \in shorter : Len(t) = n - 1}, x \in S}

(***************************************************************************)
(* Documents.  all_elements is the list soup.find_all([...]) returns: each *)
(* element is a heading (tag 1..6 for h1..h6, with its stripped text) or a *)
(* body block (tag 0: p, div, ul, ol, table).  The text extracted from a   *)
(* body block is blank ("") or not; the text of the block at index i is    *)
(* named by i, so that the texts of different blocks stay distinguishable. *)
(***************************************************************************)
Heading(l, t) == [tag |-> l, text |-> t]

BodyBlock(t) == [tag |-> 0, text |-> t]

IsHeader(element) == element.tag \in 1..NumLevels

\* f"{page_id}-chunk-{i}"
ChunkId(pid, i) == <<pid, i>>

(***************************************************************************)
(* HeaderBasedChunker.chunk_content, as operators on the loop state        *)
(* st = [current_headers, current_chunk, chunk_content, chunks]            *)
(***************************************************************************)
\* variant: the loop starts with an untitled chunk open for the text that
\* precedes the first heading
LoopInit_UntitledChunk ==
  [current_headers |-> [i \in 0..(NumLevels - 1) |-> None],
   current_chunk   |-> [header          |-> "",
                        level           |-> 0,
                        parent_chunk_id |-> None,
                        parent_header   |-> None,
                        header_path     |-> <<>>,
                        depth           |-> 0,
                        children        |-> <<>>],
   chunk_content   |-> <<>>,
   chunks          |-> <<>>]

LoopInit ==
  [current_headers |-> [i \in 0..(NumLevels - 1) |-> None],
   current_chunk   |-> None,
   chunk_content   |-> <<>>,
   chunks          |-> <<>>]

\* "Save the previous chunk if it exists" / "Add the last chunk"
SaveChunk(st) ==
  IF st.current_chunk # None /\ st.chunk_content # <<>>
  THEN Append(st.chunks,
              [header          |-> st.current_chunk.header,
               level           |-> st.current_chunk.level,
               parent_chunk_id |-> st.current_chunk.parent_chunk_id,
               parent_header   |-> st.current_chunk.parent_header,
               header_path     |-> st.current_chunk.header_path,
               depth           |-> st.current_chunk.depth,
               children        |-> st.current_chunk.children,
               content         |-> st.chunk_content,
               full_context    |-> <<st.current_chunk.header, st.chunk_content>>])
  ELSE st.chunks

\* the slot the parent scan "for i in range(header_level - 1, -1, -1)" stops
\* at, -1 when it finds no slot
ParentSlot(headers, header_level) ==
  LET open == {i \in 0..(header_level - 1) : headers[i] # None}
  IN  IF open = {} THEN -1 ELSE SetMax(open)

\* variant: without the test "len(chunks) > current_headers[i]['chunk_index']"
ParentOf_NoLengthTest(headers, header_level, nchunks, pid) ==
  LET i == ParentSlot(headers, header_level)
  IN  IF i = -1 THEN [id |-> None, text |-> None]
      ELSE [id |-> ChunkId(pid, headers[i].chunk_index), text |-> headers[i].text]

\* "Determine parent chunk"
ParentOf(headers, header_level, nchunks, pid) ==
  LET i == ParentSlot(headers, header_level)
  IN  IF i = -1 THEN [id |-> None, text |-> None]
      ELSE IF nchunks > headers[i].chunk_index
           THEN [id |-> ChunkId(pid, headers[i].chunk_index), text |-> headers[i].text]
           ELSE [id |-> None, text |-> None]

\* "Build header path"
HeaderPath(headers, header_level, pid) ==
  LET open == AscSeq({i \in 0..(header_level - 1) : headers[i] # None})
  IN  [k \in 1..Len(open) |->
         [level    |-> open[k] + 1,
          text     |-> headers[open[k]].text,
          chunk_id |-> ChunkId(pid, headers[open[k]].chunk_index)]]

\* the branch "if element.name in self.header_tags"
HeaderStep(st, element, pid) ==
  LET saved        == SaveChunk(st)
      header_level == element.tag - 1
      headers      == [i \in 0..(NumLevels - 1) |->
                         IF i = header_level
                         THEN [text |-> element.text, chunk_index |-> Len(saved)]
                         ELSE IF i > header_level THEN None
                         ELSE st.current_headers[i]]
      parent       == ParentOf(headers, header_level, Len(saved), pid)
  IN  [current_headers |-> headers,
       current_chunk   |-> [header          |-> element.text,
                            level           |-> header_level + 1,
                            parent_chunk_id |-> parent.id,
                            parent_header   |-> parent.text,
                            header_path     |-> HeaderPath(headers, header_level, pid),
                            depth           |-> header_level,
                            children        |-> <<>>],
       chunk_content   |-> <<>>,
       chunks          |-> saved]

\* the branch "elif current_chunk is not None"; idx is the element's index
BodyStep(st, element, idx) ==
  IF st.current_chunk # None /\ element.text # ""
  THEN [st EXCEPT !.chunk_content = Append(@, idx)]
  ELSE st

ElementStep(st, element, idx, pid) ==
  IF IsHeader(element) THEN HeaderStep(st, element, pid) ELSE BodyStep(st, element, idx)

RECURSIVE RunLoop(_, _, _, _)
\* "for element in all_elements", from index idx on (the test on st.chunks is
\* never true: it has the state of an iteration evaluated before the next
\* iteration starts, which keeps the evaluation of long documents shallow)
RunLoop(st, elements, idx, pid) ==
  IF idx > Len(elements) \/ Len(st.chunks) < 0 THEN st
  ELSE RunLoop(ElementStep(st, elements[idx], idx, pid), elements, idx + 1, pid)

RECURSIVE FillFrom_OneBasedId(_, _, _)
\* variant: the child id is built from the 1-based position of the chunk
FillFrom_OneBasedId(cs, i, pid) ==
  IF i > Len(cs) THEN cs
  ELSE LET chunk_map == {ChunkId(pid, k - 1) : k \in 1..Len(cs)}
           parent    == cs[i].parent_chunk_id
       IN  IF parent # None /\ parent \in chunk_map
           THEN FillFrom_OneBasedId([cs EXCEPT ![parent[2] + 1].children =
                                                  Append(@, ChunkId(pid, i))],
                                    i + 1, pid)
           ELSE FillFrom_OneBasedId(cs, i + 1, pid)

RECURSIVE FillFrom(_, _, _)
\* "for i, chunk in enumerate(chunks)": chunk number i (1-based here) is
\* appended to the children of the chunk its parent_chunk_id names
FillFrom(cs, i, pid) ==
  IF i > Len(cs) THEN cs
  ELSE LET chunk_map == {ChunkId(pid, k - 1) : k \in 1..Len(cs)}
           parent    == cs[i].parent_chunk_id
       IN  IF parent # None /\ parent \in chunk_map
           THEN FillFrom([cs EXCEPT ![parent[2] + 1].children =
                                       Append(@, ChunkId(pid, i - 1))],
                         i + 1, pid)
           ELSE FillFrom(cs, i + 1, pid)

\* "fill in the children arrays"
FillChildren(cs, pid) == FillFrom(cs, 1, pid)

\* chunk_content(html_content, page_id), whole
ChunkContent(elements, pid) ==
  LET st == RunLoop(LoopInit, elements, 1, pid)
  IN  FillChildren(SaveChunk(st), pid)

(***************************************************************************)
(* State                                                                   *)
(***************************************************************************)
VARIABLES
  page_id,          \* chunk_content: argument page_id
  all_elements,     \* chunk_content: soup.find_all(...)
  idx,              \* chunk_content: position of the for loop in all_elements
  current_headers,  \* chunk_content: the header stack
  current_chunk,    \* chunk_content: the chunk being accumulated
  chunk_content,    \* chunk_content: the text blocks accumulated for it
  chunks,           \* chunk_content: the list that is returned
  pc,               \* position of the running operation
  collection,       \* the MongoDB collection page_chunks: _id -> document
  processed_pages,  \* main: ids of the pages ingested by the current run
  all_docs,         \* _traverse_graph: the documents read at the start
  seed_nodes,       \* _traverse_graph: argument seed_nodes
  max_nodes,        \* _traverse_graph: argument max_nodes
  max_depth,        \* _traverse_graph: argument max_depth
  visited,          \* _traverse_graph: set of visited ids
  discovery_paths,  \* _traverse_graph: id -> list of hop labels
  nodes_to_explore, \* _traverse_graph: FIFO list of <<id, depth>>
  relationship_counts, \* _traverse_graph: label -> count
  enqueued,         \* history: every append to nodes_to_explore, in order
  node_doc,         \* _get_node_relevance_score: doc, the document read for node_id
  query_embedding,  \* _get_node_relevance_score: argument query_embedding
  topics,           \* _get_node_relevance_score: argument topics
  node_path,        \* _get_node_relevance_score: argument path
  relevance,        \* _get_node_relevance_score: the value returned
  source_module,    \* the module the EnhancedGraphRAG class is taken from
  last_query_stats, \* EnhancedGraphRAG: the attribute self.last_query_stats
  call,             \* search: the locals of each running call
  upserts,          \* history: the number of upserts made while searches run
  left_vector,      \* a similarity computation: the first vector
  right_vector,     \* a similarity computation: the second vector
  similarity,       \* a similarity computation: what it produced
  background_jobs,  \* confluence_api: the global background_jobs
  reload_request,   \* confluence_api: position of each POST /api/reload_all
  job_thread,       \* confluence_api: the worker threads started, in order
  site,             \* the Confluence pages: links, accessible pages, max_depth
  processed_urls,   \* ConfluenceLoader: the attribute self.processed_urls
  frames,           \* process_page_recursive: the stack of running calls
  returned_pages    \* process_page_recursive: what the outermost call returned

chunkerVars == <<page_id, all_elements, idx, current_headers, current_chunk,
                 chunk_content, chunks>>

storeVars == <<collection, processed_pages>>

traverseVars == <<all_docs, seed_nodes, max_nodes, max_depth, visited,
                  discovery_paths, nodes_to_explore, relationship_counts, enqueued>>

scoreVars == <<node_doc, query_embedding, topics, node_path, relevance>>

searchVars == <<source_module, last_query_stats, call, upserts>>

similarityVars == <<left_vector, right_vector, similarity>>

reloadVars == <<background_jobs, reload_request, job_thread>>

crawlVars == <<site, processed_urls, frames, returned_pages>>

loaderVars == <<similarityVars, reloadVars, crawlVars>>

vars == <<pc, chunkerVars, storeVars, traverseVars, scoreVars, searchVars, loaderVars>>

otherThanChunker == <<storeVars, traverseVars, scoreVars, searchVars, loaderVars>>

LoopState ==
  [current_headers |-> current_headers,
   current_chunk   |-> current_chunk,
   chunk_content   |-> chunk_content,
   chunks          |-> chunks]

SetLoopState(st) ==
  /\ current_headers' = st.current_headers
  /\ current_chunk' = st.current_chunk
  /\ chunk_content' = st.chunk_content
  /\ chunks' = st.chunks

(***************************************************************************)
(* chunk_content, one loop iteration per step                              *)
(***************************************************************************)
\* the elements the documents of SpecChunk are made of
Elements ==
  {Heading(l, "A") : l \in 1..MaxLevel} \cup {BodyBlock(""), BodyBlock("x")}

\* the state of the store while chunk_content alone is looked at
StoreIdle ==
  /\ collection = <<>>
  /\ processed_pages = {}

\* no traversal is running
TraverseIdle ==
  /\ all_docs = <<>>
  /\ seed_nodes = <<>>
  /\ max_nodes = 0
  /\ max_depth = 0
  /\ visited = {}
  /\ discovery_paths = <<>>
  /\ nodes_to_explore = <<>>
  /\ relationship_counts = <<>>
  /\ enqueued = <<>>

\* no score is being computed and no search is running
RetrievalIdle ==
  /\ node_doc = <<>>
  /\ query_embedding = <<>>
  /\ topics = <<>>
  /\ node_path = <<>>
  /\ relevance = 0
  /\ source_module = ""
  /\ last_query_stats = <<>>
  /\ call = <<>>
  /\ upserts = 0

\* no similarity is being computed
SimilarityIdle ==
  /\ left_vector = <<>>
  /\ right_vector = <<>>
  /\ similarity = <<>>

\* the API server is not looked at
ReloadIdle ==
  /\ background_jobs = <<>>
  /\ reload_request = <<>>
  /\ job_thread = <<>>

\* no page is being loaded
CrawlIdle ==
  /\ site = <<>>
  /\ processed_urls = {}
  /\ frames = <<>>
  /\ returned_pages = <<>>

LoaderIdle == SimilarityIdle /\ ReloadIdle /\ CrawlIdle

ChunkerStart(elements) ==
  /\ StoreIdle
  /\ TraverseIdle
  /\ RetrievalIdle
  /\ LoaderIdle
  /\ page_id = 1
  /\ all_elements = elements
  /\ idx = 1
  /\ current_headers = LoopInit.current_headers
  /\ current_chunk = LoopInit.current_chunk
  /\ chunk_content = LoopInit.chunk_content
  /\ chunks = LoopInit.chunks
  /\ pc = "loop"

InitChunk == \E elements \in SeqsUpTo(Elements, MaxBlocks) : ChunkerStart(elements)

\* one iteration on a heading element
HeaderElement ==
  /\ pc = "loop"
  /\ idx <= Len(all_elements)
  /\ IsHeader(all_elements[idx])
  /\ SetLoopState(HeaderStep(LoopState, all_elements[idx], page_id))
  /\ idx' = idx + 1
  /\ UNCHANGED <<page_id, all_elements, pc>>
  /\ UNCHANGED otherThanChunker

\* one iteration on a non-heading element
BodyElement ==
  /\ pc = "loop"
  /\ idx <= Len(all_elements)
  /\ ~IsHeader(all_elements[idx])
  /\ SetLoopState(BodyStep(LoopState, all_elements[idx], idx))
  /\ idx' = idx + 1
  /\ UNCHANGED <<page_id, all_elements, pc>>
  /\ UNCHANGED otherThanChunker

\* "Add the last chunk"
AddLastChunk ==
  /\ pc = "loop"
  /\ idx > Len(all_elements)
  /\ chunks' = SaveChunk(LoopState)
  /\ pc' = "fill"
  /\ UNCHANGED <<page_id, all_elements, idx, current_headers, current_chunk, chunk_content>>
  /\ UNCHANGED otherThanChunker

\* the children post-pass and the return
ReturnChunks ==
  /\ pc = "fill"
  /\ chunks' = FillChildren(chunks, page_id)
  /\ pc' = "done"
  /\ UNCHANGED <<page_id, all_elements, idx, current_headers, current_chunk, chunk_content>>
  /\ UNCHANGED otherThanChunker

NextChunk == HeaderElement \/ BodyElement \/ AddLastChunk \/ ReturnChunks

SpecChunk == InitChunk /\ [][NextChunk]_vars

\* the documents of SpecOutline: the headings H1 "A", H2 "B", H2 "C", H3 "C.1"
\* in this order, with up to MaxGap body blocks before, between and after them
Gaps == SeqsUpTo({BodyBlock(""), BodyBlock("x")}, MaxGap)

OutlineDocs ==
  {g0 \o <<Heading(1, "A")>> \o g1 \o <<Heading(2, "B")>> \o g2
      \o <<Heading(2, "C")>> \o g3 \o <<Heading(3, "C.1")>> \o g4 :
     g0 \in Gaps, g1 \in Gaps, g2 \in Gaps, g3 \in Gaps, g4 \in Gaps}

InitOutline == \E elements \in OutlineDocs : ChunkerStart(elements)

SpecOutline == InitOutline /\ [][NextChunk]_vars

(***************************************************************************)
(* What a document says, read off all_elements alone                       *)
(***************************************************************************)
HeadingIdxs(doc) == {i \in 1..Len(doc) : IsHeader(doc[i])}

\* some non-blank body block lies between heading h and the next heading
HasBody(doc, h) ==
  \E j \in (h + 1)..Len(doc) :
    /\ ~IsHeader(doc[j])
    /\ doc[j].text # ""
    /\ \A k \in (h + 1)..j : ~IsHeader(doc[k])

\* heading g is still open at heading h: no heading in between has the level
\* of g or a lower one
OpenAt(doc, g, h) ==
  /\ g < h
  /\ \A k \in (g + 1)..(h - 1) : IsHeader(doc[k]) => doc[k].tag > doc[g].tag

\* the nearest still-open heading of a level below that of heading h, 0 if none
NearestOpenLower(doc, h) ==
  LET cands == {g \in HeadingIdxs(doc) : OpenAt(doc, g, h) /\ doc[g].tag < doc[h].tag}
  IN  IF cands = {} THEN 0 ELSE SetMax(cands)

\* position in the returned list (0-based) of the chunk of heading h, which
\* has a body
OrdinalOf(doc, h) == Cardinality({g \in HeadingIdxs(doc) : g < h /\ HasBody(doc, g)})

\* the headings that have a body, in document order
BodiedHeadings(doc) == AscSeq({h \in HeadingIdxs(doc) : HasBody(doc, h)})

\* the returned list holds one chunk per heading with a body, in order
ChunksAreBodiedHeadings ==
  pc = "done" =>
    LET hs == BodiedHeadings(all_elements)
    IN  /\ Len(chunks) = Len(hs)
        /\ \A k \in 1..Len(hs) :
             /\ chunks[k].header = all_elements[hs[k]].text
             /\ chunks[k].level = all_elements[hs[k]].tag

\* the step machine returns what the operator computes
StepsAgree == pc = "done" => chunks = ChunkContent(all_elements, page_id)

(***************************************************************************)
(* Reading the parent links of a list of chunks                            *)
(***************************************************************************)
\* 1-based position of the chunk a chunk id names
PosOf(id) == id[2] + 1

RECURSIVE StepsToRoot(_, _, _)
\* number of parent_chunk_id links followed from chunk i until a chunk with
\* parent_chunk_id = None is reached; 1000 if none is reached within n links
StepsToRoot(cs, i, n) ==
  IF cs[i].parent_chunk_id = None THEN 0
  ELSE IF n = 0 \/ PosOf(cs[i].parent_chunk_id) \notin 1..Len(cs) THEN 1000
  ELSE 1 + StepsToRoot(cs, PosOf(cs[i].parent_chunk_id), n - 1)

RECURSIVE AncestorIds(_, _, _)
\* the ids met by following parent_chunk_id from chunk i, nearest first
AncestorIds(cs, i, n) ==
  IF cs[i].parent_chunk_id = None \/ n = 0 THEN <<>>
  ELSE IF PosOf(cs[i].parent_chunk_id) \notin 1..Len(cs) THEN <<cs[i].parent_chunk_id>>
  ELSE <<cs[i].parent_chunk_id>> \o AncestorIds(cs, PosOf(cs[i].parent_chunk_id), n - 1)

Reverse(s) == [k \in 1..Len(s) |-> s[Len(s) + 1 - k]]

(***************************************************************************)
(* Properties of chunk_content                                             *)
(***************************************************************************)
\* C1: for every document whose headings are H1 "A", H2 "B", H2 "C",
\* H3 "C.1" in this order, whatever body blocks lie between them,
\* chunk_content returns exactly 4 chunks, with parent(B) = parent(C) = A,
\* parent(C.1) = C, children(A) = {B, C} and children(C) = {C.1}.
C1_OutlineGivesFourChunks ==
  pc = "done" =>
    /\ Len(chunks) = 4
    /\ chunks[1].header = "A" /\ chunks[2].header = "B"
    /\ chunks[3].header = "C" /\ chunks[4].header = "C.1"
    /\ chunks[2].parent_chunk_id = ChunkId(page_id, 0)
    /\ chunks[3].parent_chunk_id = ChunkId(page_id, 0)
    /\ chunks[4].parent_chunk_id = ChunkId(page_id, 2)
    /\ Range(chunks[1].children) = {ChunkId(page_id, 1), ChunkId(page_id, 2)}
    /\ Range(chunks[3].children) = {ChunkId(page_id, 3)}

\* the outline in which every one of the four headings has a body
OutlineAllBodied ==
  \A h \in HeadingIdxs(all_elements) : HasBody(all_elements, h)

\* the statement of C1 holds for the outlines whose headings all have a body
OutlineWithBodiesGivesFourChunks ==
  OutlineAllBodied => C1_OutlineGivesFourChunks

\* C2: the chunk of every heading at level L has as parent_chunk_id the id of
\* the chunk opened by the nearest still-open heading of a level below L, and
\* None when no such heading is open (None too where that heading opened no
\* chunk), whether or not earlier headings have a body.
C2_ParentIsNearestOpenLowerHeading ==
  pc = "done" =>
    LET hs == BodiedHeadings(all_elements)
    IN  \A k \in 1..Len(chunks) :
          LET g == NearestOpenLower(all_elements, hs[k])
          IN  chunks[k].parent_chunk_id =
                IF g = 0 \/ ~HasBody(all_elements, g) THEN None
                ELSE ChunkId(page_id, OrdinalOf(all_elements, g))

\* C3: in the returned list, c.parent_chunk_id is the id of p exactly when
\* the id of c is in p.children, and no children list holds an id twice.
C3_ParentChildrenConsistent ==
  pc = "done" =>
    /\ \A c, p \in 1..Len(chunks) :
         (chunks[c].parent_chunk_id = ChunkId(page_id, p - 1))
           <=> (ChunkId(page_id, c - 1) \in Range(chunks[p].children))
    /\ \A p \in 1..Len(chunks) : NoDuplicates(chunks[p].children)

\* a returned list in which some chunk has two children
C3_Witness ==
  /\ pc = "done"
  /\ \E p \in 1..Len(chunks) : Len(chunks[p].children) = 2

C5_HeaderPathIsAncestorChain ==
  pc = "done" =>
    \A i \in 1..Len(chunks) :
      LET path == chunks[i].header_path
          ids  == [k \in 1..Len(path) |-> path[k].chunk_id]
      IN  /\ ids = Reverse(AncestorIds(chunks, i, Len(chunks)))
          /\ \A k \in 1..(Len(path) - 1) : path[k].level < path[k + 1].level
          /\ (path = <<>>) <=> (chunks[i].parent_chunk_id = None)
          /\ path # <<>> => path[Len(path)].chunk_id = chunks[i].parent_chunk_id

\* the statement of C5 holds for the documents whose headings all have a body
HeaderPathIsAncestorChainWhenBodied ==
  OutlineAllBodied => C5_HeaderPathIsAncestorChain

\* the body blocks with text that precede the first heading
Preamble(doc) ==
  {i \in 1..Len(doc) : /\ ~IsHeader(doc[i])
                        /\ doc[i].text # ""
                        /\ \A h \in HeadingIdxs(doc) : i < h}

\* C6: a document without heading gives the empty list, and the text of a
\* body block that precedes the first heading is in no returned chunk.
C6_NoHeadingNoChunkPreambleDropped ==
  pc = "done" =>
    /\ HeadingIdxs(all_elements) = {} => chunks = <<>>
    /\ \A i \in Preamble(all_elements) : \A k \in 1..Len(chunks) :
         /\ i \notin Range(chunks[k].content)
         /\ i \notin Range(chunks[k].full_context[2])

\* a document with text before its first heading that gives a chunk
C6_Witness ==
  /\ pc = "done"
  /\ Preamble(all_elements) # {}
  /\ chunks # <<>>

(***************************************************************************)
(* The store: ConfluenceMongoDB.add_confluence_chunk, the ingestion loop   *)
(* of main() and rebuild_graph_structure.  A stored document keeps the     *)
(* fields the graph is made of; page_title, embedding, references,         *)
(* keywords, node_type and the timestamps are written but never read by    *)
(* these operations and are left out.                                      *)
(***************************************************************************)
\* the page ids of SpecStore
Pages == 1..NumPages

\* a field no update has set yet
NotSet == <<"not set">>

\* the texts the headings of the pages of SpecStore carry, by level
TitleOf(l) == IF l = 1 THEN "A" ELSE "B"

\* a heading of level 1..2 alone, or followed by one body block with text
Sections ==
  UNION {{<<Heading(l, TitleOf(l))>>, <<Heading(l, TitleOf(l)), BodyBlock("x")>>} : l \in 1..2}

RECURSIVE SectionDocs(_)
\* the page contents of up to n sections
SectionDocs(n) ==
  IF n = 0 THEN {<<>>}
  ELSE LET shorter == SectionDocs(n - 1)
       IN  shorter \cup {d \o sec : d \in shorter, sec \in Sections}

StoreDocs == SectionDocs(MaxSections)

\* variant: the update appends the new children to the stored ones
AddConfluenceChunk_PushChildren(coll, chunk_id, pid, chunk) ==
  LET old == IF chunk_id \in DOMAIN coll THEN coll[chunk_id].children ELSE <<>>
      doc == [page_id         |-> pid,
              header          |-> chunk.header,
              level           |-> chunk.level,
              content         |-> chunk.content,
              full_context    |-> chunk.full_context,
              parent_chunk_id |-> chunk.parent_chunk_id,
              children        |-> old \o chunk.children,
              header_path     |-> chunk.header_path,
              depth           |-> chunk.depth,
              parent_header   |-> IF chunk_id \in DOMAIN coll
                                  THEN coll[chunk_id].parent_header ELSE NotSet]
  IN  (chunk_id :> doc) @@ coll

\* add_confluence_chunk: update_one({"_id": chunk_id}, {"$set": doc}, upsert=True)
AddConfluenceChunk(coll, chunk_id, pid, chunk) ==
  LET doc == [page_id         |-> pid,
              header          |-> chunk.header,
              level           |-> chunk.level,
              content         |-> chunk.content,
              full_context    |-> chunk.full_context,
              parent_chunk_id |-> chunk.parent_chunk_id,
              children        |-> chunk.children,
              header_path     |-> chunk.header_path,
              depth           |-> chunk.depth,
              parent_header   |-> IF chunk_id \in DOMAIN coll
                                  THEN coll[chunk_id].parent_header ELSE NotSet]
  IN  (chunk_id :> doc) @@ coll

RECURSIVE StoreChunks(_, _, _, _, _)
\* main: "for i, chunk in enumerate(chunks)", chunks i..n of cs (1-based)
StoreChunks(coll, pid, cs, i, n) ==
  IF i > n THEN coll
  ELSE StoreChunks(AddConfluenceChunk(coll, ChunkId(pid, i - 1), pid, cs[i]),
                   pid, cs, i + 1, n)

\* main: one page is chunked and all its chunks are stored
IngestOp(coll, pid, elements) ==
  LET cs == ChunkContent(elements, pid)
  IN  StoreChunks(coll, pid, cs, 1, Len(cs))

(***************************************************************************)
(* rebuild_graph_structure                                                 *)
(***************************************************************************)
RECURSIVE Digits(_)
\* str(n): the decimal digits of n
Digits(n) == IF n < 10 THEN <<n>> ELSE Append(Digits(n \div 10), n % 10)

RECURSIVE LexLess(_, _)
\* string comparison a < b
LexLess(a, b) ==
  IF a = <<>> THEN b # <<>>
  ELSE IF b = <<>> THEN FALSE
  ELSE IF Head(a) # Head(b) THEN Head(a) < Head(b)
  ELSE LexLess(Tail(a), Tail(b))

\* x["_id"] < y["_id"] for two ids "<page>-chunk-<i>" of one page
IdLess(a, b) == LexLess(Digits(a[2]), Digits(b[2]))

RECURSIVE SortById(_)
\* chunks.sort(key=lambda x: x["_id"])
SortById(ids) ==
  IF ids = {} THEN <<>>
  ELSE LET least == CHOOSE a \in ids : \A b \in ids \ {a} : IdLess(a, b)
       IN  <<least>> \o SortById(ids \ {least})

\* rebuild: "Determine parent chunk"
RebuildParent(headers, header_level) ==
  LET j == ParentSlot(headers, header_level)
  IN  IF j = -1 THEN [id |-> None, text |-> None]
      ELSE [id |-> headers[j].chunk_id, text |-> headers[j].text]

\* rebuild: "Build header path"
RebuildHeaderPath(headers, header_level) ==
  LET open == AscSeq({j \in 0..(header_level - 1) : headers[j] # None})
  IN  [k \in 1..Len(open) |->
         [level    |-> open[k] + 1,
          text     |-> headers[open[k]].text,
          chunk_id |-> headers[open[k]].chunk_id]]

RECURSIVE RebuildHierarchy(_, _, _, _, _)
\* rebuild step 3: "for i, chunk in enumerate(chunks)" over the sorted list
\* order of the chunks read at the start (snapshot), from position i on
RebuildHierarchy(coll, snapshot, order, i, headers) ==
  IF i > Len(order) THEN coll
  ELSE
    LET chunk_id == order[i]
        level    == snapshot[chunk_id].level
    IN  IF level = 0
        THEN RebuildHierarchy(coll, snapshot, order, i + 1, headers)
        ELSE
          LET header_level == level - 1
              hs     == [j \in 0..(NumLevels - 1) |->
                           IF j = header_level
                           THEN [text |-> snapshot[chunk_id].header, chunk_id |-> chunk_id]
                           ELSE IF j > header_level THEN None
                           ELSE headers[j]]
              parent == RebuildParent(hs, header_level)
              coll2  == [coll EXCEPT ![chunk_id] =
                           [@ EXCEPT !.parent_chunk_id = parent.id,
                                     !.parent_header   = parent.text,
                                     !.header_path     = RebuildHeaderPath(hs, header_level),
                                     !.depth           = header_level]]
          IN  RebuildHierarchy(coll2, snapshot, order, i + 1, hs)

\* {"$addToSet": {"children": child}} on the document parent, if it exists
AddToChildren(coll, parent, child) ==
  IF parent \notin DOMAIN coll THEN coll
  ELSE IF child \in Range(coll[parent].children) THEN coll
  ELSE [coll EXCEPT ![parent].children = Append(@, child)]

RECURSIVE RebuildChildren(_, _, _, _)
\* rebuild step 4: "for chunk in chunks", on the chunks as read at the start
RebuildChildren(coll, snapshot, order, i) ==
  IF i > Len(order) THEN coll
  ELSE LET chunk == snapshot[order[i]]
       IN  IF chunk.parent_chunk_id # None
           THEN RebuildChildren(AddToChildren(coll, chunk.parent_chunk_id, order[i]),
                                snapshot, order, i + 1)
           ELSE RebuildChildren(coll, snapshot, order, i + 1)

\* rebuild: the body of "for page_id in page_ids" for one page
RebuildPage(coll, pid) ==
  LET ids   == {id \in DOMAIN coll : coll[id].page_id = pid}
      order == SortById(ids)
      coll3 == RebuildHierarchy(coll, coll, order, 1, LoopInit.current_headers)
  IN  RebuildChildren(coll3, coll, order, 1)

RECURSIVE RebuildPages(_, _)
\* rebuild: "for page_id in page_ids"
RebuildPages(coll, pids) ==
  IF pids = {} THEN coll
  ELSE LET pid == CHOOSE q \in pids : TRUE
       IN  RebuildPages(RebuildPage(coll, pid), pids \ {pid})

(***************************************************************************)
(* Ingestion runs and rebuild passes on one store                          *)
(***************************************************************************)
ChunkerIdle ==
  /\ page_id = None
  /\ all_elements = <<>>
  /\ idx = 0
  /\ current_headers = LoopInit.current_headers
  /\ current_chunk = None
  /\ chunk_content = <<>>
  /\ chunks = <<>>

InitStore ==
  /\ ChunkerIdle
  /\ pc = "idle"
  /\ TraverseIdle
  /\ RetrievalIdle
  /\ LoaderIdle
  /\ collection = <<>>
  /\ processed_pages = {}

otherThanStore == <<pc, chunkerVars, traverseVars, scoreVars, searchVars, loaderVars>>

\* a run of main() starts: processed_pages = {}
MainStart ==
  /\ processed_pages # {}
  /\ processed_pages' = {}
  /\ UNCHANGED collection
  /\ UNCHANGED otherThanStore

\* main: the body of "for page in pages" for a page not yet processed by this
\* run, whose content is elements
IngestPage ==
  \E pid \in Pages \ processed_pages, elements \in StoreDocs :
    /\ processed_pages' = processed_pages \cup {pid}
    /\ collection' = IngestOp(collection, pid, elements)
    /\ UNCHANGED otherThanStore

\* main: the same, when openai.embeddings.create raises at chunk n + 1: the
\* chunks before it are stored and the exception leaves the loop
IngestPageFails ==
  \E pid \in Pages \ processed_pages, elements \in StoreDocs :
    LET cs == ChunkContent(elements, pid)
    IN  \E n \in 0..(Len(cs) - 1) :
          /\ processed_pages' = processed_pages \cup {pid}
          /\ collection' = StoreChunks(collection, pid, cs, 1, n)
          /\ UNCHANGED otherThanStore

\* one call of rebuild_graph_structure()
Rebuild ==
  /\ collection' = RebuildPages(collection, {collection[id].page_id : id \in DOMAIN collection})
  /\ UNCHANGED processed_pages
  /\ UNCHANGED otherThanStore

NextStore == MainStart \/ IngestPage \/ IngestPageFails \/ Rebuild

SpecStore == InitStore /\ [][NextStore]_vars

\* C7: after any sequence of page ingestions and rebuild passes, every pair
\* of stored chunks c, p has c.parent_chunk_id = p._id exactly when c._id is
\* in p.children.
C7_StoredParentChildrenConsistent ==
  \A c, p \in DOMAIN collection :
    (collection[c].parent_chunk_id = p) <=> (c \in Range(collection[p].children))

\* the graph fields of the stored documents
GraphFields(coll) ==
  [id \in DOMAIN coll |->
     [header          |-> coll[id].header,
      level           |-> coll[id].level,
      parent_chunk_id |-> coll[id].parent_chunk_id,
      children        |-> coll[id].children,
      header_path     |-> coll[id].header_path]]

\* C8: ingesting the same page content twice leaves the store with the same
\* node ids and the same header, level, parent_chunk_id, children and
\* header_path per node as ingesting it once.
C8_IngestTwiceIsIngestOnce ==
  \A pid \in Pages, elements \in StoreDocs :
    GraphFields(IngestOp(IngestOp(collection, pid, elements), pid, elements))
      = GraphFields(IngestOp(collection, pid, elements))

\* a store that holds a page of two chunks, the second a child of the first,
\* ingested by the current run, on which ingesting the same content again
\* changes nothing
C8_Witness ==
  \E pid \in processed_pages, elements \in StoreDocs :
    LET cs == ChunkContent(elements, pid)
    IN  /\ Len(cs) = 2
        /\ cs[2].parent_chunk_id = ChunkId(pid, 0)
        /\ {id \in DOMAIN collection : collection[id].page_id = pid}
              = {ChunkId(pid, 0), ChunkId(pid, 1)}
        /\ collection[ChunkId(pid, 0)].children = <<ChunkId(pid, 1)>>
        /\ IngestOp(collection, pid, elements) = collection

(***************************************************************************)
(* EnhancedGraphRAG._traverse_graph.  A document of the snapshot all_docs  *)
(* has the projected fields _id, parent_chunk_id, page_id, level and       *)
(* embedding (children and header are read from the store but not used by  *)
(* the traversal).  level = 0 stands for a document without level,         *)
(* embedding = <<>> for one without embedding; page ids are positive.      *)
(***************************************************************************)
\* the ids of the documents of the snapshot, in the order find() returns them
NodeOrder == <<ChunkId(1, 0), ChunkId(1, 1), ChunkId(1, 2), ChunkId(2, 0)>>

NodeIds == Range(NodeOrder)

\* an id that names no document of the snapshot
DanglingId == ChunkId(1, 7)

\* the levels and embeddings given to the four documents
Profiles ==
  { [level     |-> <<0, 0, 0, 0>>,
     embedding |-> <<<<1, 0, 0, 0>>, <<0, 1, 0, 0>>, <<0, 0, 1, 0>>, <<0, 0, 0, 1>>>>],
    [level     |-> <<1, 1, 2, 1>>,
     embedding |-> <<<<1, 0, 0, 0>>, <<0, 1, 0, 0>>, <<0, 0, 1, 0>>, <<0, 0, 0, 1>>>>],
    [level     |-> <<0, 0, 0, 0>>,
     embedding |-> <<<<1, 0>>, <<4, 1>>, <<3, 1>>, <<0, 1>>>>],
    [level     |-> <<1, 2, 1, 1>>,
     embedding |-> <<<<1, 0>>, <<1, 0>>, <<>>, <<2, 0>>>>] }

\* the seed lists: search passes the ids of the best scored documents
SeedLists == {<<NodeOrder[1]>>, <<NodeOrder[1], NodeOrder[2]>>}

Dot(v, w) ==
  LET n == IF Len(v) < Len(w) THEN Len(v) ELSE Len(w)
      RECURSIVE Sum(_)
      Sum(k) == IF k = 0 THEN 0 ELSE v[k] * w[k] + Sum(k - 1)
  IN  Sum(n)

\* _cosine_similarity(v, w) > 0.85, on integer vectors: the similarity is 0
\* when norm1 * norm2 is 0, and dot / (norm1 * norm2) otherwise
SimilarityAbove85(v, w) ==
  /\ Dot(v, v) * Dot(w, w) > 0
  /\ Dot(v, w) > 0
  /\ 400 * Dot(v, w) * Dot(v, w) > 289 * Dot(v, v) * Dot(w, w)

\* _cosine_similarity(c, x) > _cosine_similarity(c, y), for two similarities
\* that are both positive
SimilarityGreater(c, x, y) ==
  Dot(c, x) * Dot(c, x) * Dot(y, y) > Dot(c, y) * Dot(c, y) * Dot(x, x)

\* doc_map = {doc["_id"]: doc for doc in all_docs}
DocMap(docs) ==
  [id \in {docs[k]._id : k \in 1..Len(docs)} |->
     docs[SetMax({k \in 1..Len(docs) : docs[k]._id = id})]]

\* parent_to_children.get(parent, [])
ParentToChildren(docs, parent) ==
  LET Test(doc) == doc.parent_chunk_id # None /\ doc.parent_chunk_id = parent
      sel == SelectSeq(docs, Test)
  IN  [k \in 1..Len(sel) |-> sel[k]._id]

\* page_to_chunks.get(page, [])
PageToChunks(docs, page) ==
  LET Test(doc) == doc.page_id > 0 /\ doc.page_id = page
      sel == SelectSeq(docs, Test)
  IN  [k \in 1..Len(sel) |-> sel[k]._id]

\* discovery_paths.get(node, [])
PathOf(paths, node) == IF node \in DOMAIN paths THEN paths[node] ELSE <<>>

\* the four statements that add one id: visited.add, nodes_to_explore.append,
\* discovery_paths[id] = ..., relationship_counts[counter] += 1
Visit(t, id, depth, cur, label, counter) ==
  [visited             |-> t.visited \cup {id},
   nodes_to_explore    |-> Append(t.nodes_to_explore, <<id, depth + 1>>),
   discovery_paths     |-> (id :> (PathOf(t.discovery_paths, cur) \o <<label>>))
                             @@ t.discovery_paths,
   relationship_counts |-> [t.relationship_counts EXCEPT ![counter] = @ + 1],
   enqueued            |-> Append(t.enqueued, [id |-> id, seen |-> id \in t.visited])]

RECURSIVE VisitUnvisited(_, _, _, _, _, _, _)
\* "for x in ids: if x not in visited: <add x>", from position i on
VisitUnvisited(t, ids, i, depth, cur, label, counter) ==
  IF i > Len(ids) THEN t
  ELSE IF ids[i] \notin t.visited
       THEN VisitUnvisited(Visit(t, ids[i], depth, cur, label, counter),
                           ids, i + 1, depth, cur, label, counter)
       ELSE VisitUnvisited(t, ids, i + 1, depth, cur, label, counter)

RECURSIVE VisitAll(_, _, _, _, _, _, _)
\* "for x in ids: <add x>", from position i on
VisitAll(t, ids, i, depth, cur, label, counter) ==
  IF i > Len(ids) THEN t
  ELSE VisitAll(Visit(t, ids[i], depth, cur, label, counter),
                ids, i + 1, depth, cur, label, counter)

\* Strategy 1: Parent traversal
ParentStrategy(t, doc, cur, depth) ==
  IF doc.parent_chunk_id # None
  THEN VisitUnvisited(t, <<doc.parent_chunk_id>>, 1, depth, cur, "parent", "parent")
  ELSE t

\* variant: the children are added without the test "not in visited"
ChildStrategy_NoVisitedTest(t, docs, cur, depth) ==
  VisitAll(t, ParentToChildren(docs, cur), 1, depth, cur, "child", "child")

\* Strategy 2: Children traversal
ChildStrategy(t, docs, cur, depth) ==
  VisitUnvisited(t, ParentToChildren(docs, cur), 1, depth, cur, "child", "child")

\* variant: the siblings are added without the test "not in visited"
SiblingStrategy_NoVisitedTest(t, docs, doc, cur, depth) ==
  IF doc.parent_chunk_id # None
  THEN LET NotCurrent(id) == id # cur
       IN  VisitAll(t, SelectSeq(ParentToChildren(docs, doc.parent_chunk_id), NotCurrent),
                    1, depth, cur, "sibling", "sibling")
  ELSE t

\* Strategy 3: Sibling traversal (same parent)
SiblingStrategy(t, docs, doc, cur, depth) ==
  IF doc.parent_chunk_id # None
  THEN LET NotCurrent(id) == id # cur
       IN  VisitUnvisited(t, SelectSeq(ParentToChildren(docs, doc.parent_chunk_id), NotCurrent),
                          1, depth, cur, "sibling", "sibling")
  ELSE t

\* Strategy 4: Same page, same level
SameLevelStrategy(t, docs, doc, cur, depth) ==
  IF doc.page_id > 0 /\ doc.level > 0
  THEN LET SameLevel(id) == id # cur /\ id \in DOMAIN DocMap(docs)
                                     /\ DocMap(docs)[id].level = doc.level
       IN  VisitUnvisited(t, SelectSeq(PageToChunks(docs, doc.page_id), SameLevel),
                          1, depth, cur, "same_level", "semantic")
  ELSE t

RECURSIVE SortBySimilarity(_, _, _)
\* semantic_neighbors.sort(key=lambda x: x[1], reverse=True): a stable sort of
\* the documents cands by descending similarity to the embedding c
SortBySimilarity(cands, c, sorted) ==
  IF cands = <<>> THEN sorted
  ELSE LET x      == Head(cands)
           before == {k \in 1..Len(sorted) :
                        SimilarityGreater(c, x.embedding, sorted[k].embedding)}
           pos    == IF before = {} THEN Len(sorted) + 1 ELSE SetMin(before)
       IN  SortBySimilarity(Tail(cands), c,
             SubSeq(sorted, 1, pos - 1) \o <<x>> \o SubSeq(sorted, pos, Len(sorted)))

\* semantic_neighbors, sorted: the unvisited documents with an embedding whose
\* similarity to that of doc is above 0.85
SemanticNeighbors(t, docs, doc) ==
  LET Near(other) == /\ other._id \notin t.visited
                     /\ other.embedding # <<>>
                     /\ SimilarityAbove85(doc.embedding, other.embedding)
  IN  SortBySimilarity(SelectSeq(docs, Near), doc.embedding, <<>>)

\* variant: the top 3 semantic neighbors are taken
SemanticStrategy_TopThree(t, docs, doc, cur, depth) ==
  IF Cardinality(t.visited) % 3 = 0 /\ depth < 2 /\ doc.embedding # <<>>
  THEN LET sorted == SemanticNeighbors(t, docs, doc)
           top    == SubSeq(sorted, 1, IF Len(sorted) < 3 THEN Len(sorted) ELSE 3)
       IN  VisitAll(t, [k \in 1..Len(top) |-> top[k]._id], 1, depth, cur, "semantic", "topic")
  ELSE t

\* Strategy 5: Topic-guided jumps
SemanticStrategy(t, docs, doc, cur, depth) ==
  IF Cardinality(t.visited) % 3 = 0 /\ depth < 2 /\ doc.embedding # <<>>
  THEN LET sorted == SemanticNeighbors(t, docs, doc)
           top    == SubSeq(sorted, 1, IF Len(sorted) < 2 THEN Len(sorted) ELSE 2)
       IN  VisitAll(t, [k \in 1..Len(top) |-> top[k]._id], 1, depth, cur, "semantic", "topic")
  ELSE t

\* variant: the sibling strategy is left out
Expand_NoSiblingStrategy(t, docs, doc, cur, depth) ==
  LET t1 == ParentStrategy(t, doc, cur, depth)
      t2 == ChildStrategy(t1, docs, cur, depth)
      t4 == SameLevelStrategy(t2, docs, doc, cur, depth)
  IN  SemanticStrategy(t4, docs, doc, cur, depth)

\* the strategies 1 to 4 on the document doc of the node cur popped at depth
StructuralStrategies(t, docs, doc, cur, depth) ==
  LET t1 == ParentStrategy(t, doc, cur, depth)
      t2 == ChildStrategy(t1, docs, cur, depth)
      t3 == SiblingStrategy(t2, docs, doc, cur, depth)
  IN  SameLevelStrategy(t3, docs, doc, cur, depth)

\* the five strategies on the document doc of the node cur popped at depth
Expand(t, docs, doc, cur, depth) ==
  SemanticStrategy(StructuralStrategies(t, docs, doc, cur, depth), docs, doc, cur, depth)

TraverseState ==
  [visited             |-> visited,
   nodes_to_explore    |-> nodes_to_explore,
   discovery_paths     |-> discovery_paths,
   relationship_counts |-> relationship_counts,
   enqueued            |-> enqueued]

SetTraverseState(t) ==
  /\ visited' = t.visited
  /\ nodes_to_explore' = t.nodes_to_explore
  /\ discovery_paths' = t.discovery_paths
  /\ relationship_counts' = t.relationship_counts
  /\ enqueued' = t.enqueued

\* the snapshot in which the documents have the parents and the profile given
Snapshot(parents, prof) ==
  [k \in 1..Len(NodeOrder) |->
     [_id             |-> NodeOrder[k],
      parent_chunk_id |-> parents[NodeOrder[k]],
      page_id         |-> NodeOrder[k][1],
      level           |-> prof.level[k],
      embedding       |-> prof.embedding[k]]]

\* the state before the while loop
InitTraverse ==
  /\ ChunkerIdle
  /\ StoreIdle
  /\ RetrievalIdle
  /\ LoaderIdle
  /\ pc = "loop"
  /\ \E parents \in [NodeIds -> NodeIds \cup {None, DanglingId}], prof \in Profiles :
       all_docs = Snapshot(parents, prof)
  /\ seed_nodes \in SeedLists
  /\ max_nodes \in Len(seed_nodes)..MaxMaxNodes
  /\ max_depth \in 0..MaxMaxDepth
  /\ visited = Range(seed_nodes)
  /\ discovery_paths = [node \in Range(seed_nodes) |-> <<"seed">>]
  /\ nodes_to_explore = [k \in 1..Len(seed_nodes) |-> <<seed_nodes[k], 0>>]
  /\ relationship_counts =
       [parent |-> 0, child |-> 0, sibling |-> 0, semantic |-> 0, topic |-> 0]
  /\ enqueued = [k \in 1..Len(seed_nodes) |-> [id |-> seed_nodes[k], seen |-> FALSE]]

otherThanTraverse == <<chunkerVars, storeVars, scoreVars, searchVars, loaderVars>>

\* variant: an entry is skipped only when its depth is above the limit
DepthLimitReached_Above(depth, maxd) == depth > maxd

\* "if depth >= max_depth"
DepthLimitReached(depth, maxd) == depth >= maxd

\* "while nodes_to_explore and len(visited) < max_nodes"
LoopCondition == nodes_to_explore # <<>> /\ Cardinality(visited) < max_nodes

\* variant: the entry stays at the head of the worklist
SkipDeep_NoPop ==
  /\ pc = "loop"
  /\ LoopCondition
  /\ DepthLimitReached(Head(nodes_to_explore)[2], max_depth)
  /\ UNCHANGED vars

\* an iteration that ends at "if depth >= max_depth: continue"
SkipDeep ==
  /\ pc = "loop"
  /\ LoopCondition
  /\ DepthLimitReached(Head(nodes_to_explore)[2], max_depth)
  /\ nodes_to_explore' = Tail(nodes_to_explore)
  /\ UNCHANGED <<pc, all_docs, seed_nodes, max_nodes, max_depth, visited,
                 discovery_paths, relationship_counts, enqueued>>
  /\ UNCHANGED otherThanTraverse

\* an iteration that ends at "if current_node not in doc_map: continue"
SkipMissing ==
  /\ pc = "loop"
  /\ LoopCondition
  /\ ~DepthLimitReached(Head(nodes_to_explore)[2], max_depth)
  /\ Head(nodes_to_explore)[1] \notin DOMAIN DocMap(all_docs)
  /\ nodes_to_explore' = Tail(nodes_to_explore)
  /\ UNCHANGED <<pc, all_docs, seed_nodes, max_nodes, max_depth, visited,
                 discovery_paths, relationship_counts, enqueued>>
  /\ UNCHANGED otherThanTraverse

\* an iteration that runs the five strategies
ExpandNode ==
  /\ pc = "loop"
  /\ LoopCondition
  /\ LET current_node == Head(nodes_to_explore)[1]
         depth        == Head(nodes_to_explore)[2]
     IN  /\ ~DepthLimitReached(depth, max_depth)
         /\ current_node \in DOMAIN DocMap(all_docs)
         /\ SetTraverseState(
              Expand([TraverseState EXCEPT !.nodes_to_explore = Tail(@)],
                     all_docs, DocMap(all_docs)[current_node], current_node, depth))
  /\ UNCHANGED <<pc, all_docs, seed_nodes, max_nodes, max_depth>>
  /\ UNCHANGED otherThanTraverse

\* the loop ends and the result is returned
ReturnTraversal ==
  /\ pc = "loop"
  /\ ~LoopCondition
  /\ pc' = "returned"
  /\ UNCHANGED traverseVars
  /\ UNCHANGED otherThanTraverse

NextTraverse == SkipDeep \/ SkipMissing \/ ExpandNode \/ ReturnTraversal

SpecTraverse == InitTraverse /\ [][NextTraverse]_vars

\* C9: with a seed list of at most max_nodes ids, the visited set never holds
\* more than max_nodes ids, at any point of the loop and at return.
C9_VisitedWithinMaxNodes ==
  pc \in {"loop", "returned"} => Cardinality(visited) <= max_nodes

\* C10: an id is appended to the worklist only if it is not in visited at
\* that moment, so every id is enqueued at most once (and hence expanded at
\* most once), whichever strategy appends it.
C10_NeverEnqueuedTwice ==
  /\ \A k \in (Len(seed_nodes) + 1)..Len(enqueued) : ~enqueued[k].seen
  /\ NoDuplicates([k \in 1..Len(enqueued) |-> enqueued[k].id])

\* the hop labels that end the discovery path of some id
LabelsInUse ==
  {discovery_paths[id][Len(discovery_paths[id])] : id \in DOMAIN discovery_paths}

\* the enqueued entries that have been popped and expanded
ExpandedEntries ==
  {k \in 1..(Len(enqueued) - Len(nodes_to_explore)) :
     /\ Len(discovery_paths[enqueued[k].id]) - 1 < max_depth
     /\ enqueued[k].id \in DOMAIN DocMap(all_docs)}

\* a returned traversal in which four strategies have appended an id and an
\* expanded document has met its parent already visited
C10_Witness ==
  /\ pc = "returned"
  /\ Cardinality(LabelsInUse) = 5
  /\ \E k \in ExpandedEntries :
       /\ k > Len(seed_nodes)
       /\ DocMap(all_docs)[enqueued[k].id].parent_chunk_id \in Range(seed_nodes)

\* the traversal runs the scenario with the documents P, C and B: the one seed
\* A is NodeOrder[1], P is the parent of A and has no parent, C is a child of
\* A, B is another child of P, max_depth is 2 and max_nodes admits all four
Scenario(P, C, B) ==
  /\ {P, C, B} = NodeIds \ {NodeOrder[1]}
  /\ seed_nodes = <<NodeOrder[1]>>
  /\ DocMap(all_docs)[NodeOrder[1]].parent_chunk_id = P
  /\ DocMap(all_docs)[P].parent_chunk_id = None
  /\ DocMap(all_docs)[C].parent_chunk_id = NodeOrder[1]
  /\ DocMap(all_docs)[B].parent_chunk_id = P
  /\ max_depth = 2
  /\ max_nodes >= Cardinality(NodeIds)

\* C11: in the scenario seeds = {A}, A.parent = P, C a child of A, B another
\* child of P, max_depth = 2, the traversal returns visited = {A, P, C, B}
\* with the paths [seed, parent] for P, [seed, child] for C and
\* [seed, sibling] for B: B is recorded as a sibling of A, not through P.
C11_SiblingHopTakesPrecedence ==
  \A P, C, B \in NodeIds :
    (pc = "returned" /\ Scenario(P, C, B)) =>
      /\ visited = {NodeOrder[1], P, C, B}
      /\ discovery_paths[NodeOrder[1]] = <<"seed">>
      /\ discovery_paths[P] = <<"seed", "parent">>
      /\ discovery_paths[C] = <<"seed", "child">>
      /\ discovery_paths[B] = <<"seed", "sibling">>

\* the scenario has returned with P, C and B the fourth, third and second
\* document, and B has been reached by the one sibling hop
C11_Witness ==
  /\ pc = "returned"
  /\ Scenario(NodeOrder[4], NodeOrder[3], NodeOrder[2])
  /\ relationship_counts.sibling = 1
  /\ discovery_paths[NodeOrder[2]] = <<"seed", "sibling">>

(***************************************************************************)
(* Floating point: the floats of the model carry MantissaBits significant  *)
(* bits and are whole multiples of 2^-FracBits; a float is held as that    *)
(* multiple. Every operation rounds its exact result to the nearest float, *)
(* ties to the even mantissa, as the binary64 operations of Python do.     *)
(***************************************************************************)
MantissaBits == 4

FracBits == 8

RECURSIVE Pow2(_)
Pow2(n) == IF n = 0 THEN 1 ELSE 2 * Pow2(n - 1)

FloatUnit == Pow2(FracBits)

Abs(x) == IF x < 0 THEN -x ELSE x

RECURSIVE Ulp(_)
\* the distance between the floats around the magnitude q
Ulp(q) == IF q < Pow2(MantissaBits) THEN 1 ELSE 2 * Ulp(q \div 2)

\* the float nearest to num / den, for den > 0
RoundNearestEven(num, den) ==
  LET a   == Abs(num)
      s   == Ulp(a \div den)
      lo  == (a \div (den * s)) * s
      rem == a - lo * den
      up  == \/ 2 * rem > s * den
             \/ 2 * rem = s * den /\ (lo \div s) % 2 = 1
      r   == IF up THEN lo + s ELSE lo
  IN  IF num < 0 THEN -r ELSE r

\* the float a decimal literal num / den denotes
Float(num, den) == RoundNearestEven(num * FloatUnit, den)

\* x * y
FMul(x, y) == RoundNearestEven(x * y, FloatUnit)

\* x + y
FAdd(x, y) == RoundNearestEven(x + y, 1)

(***************************************************************************)
(* Strings are sequences of characters                                     *)
(***************************************************************************)
\* str.lower() on one character
LowerChar(c) ==
  IF c = "A" THEN "a" ELSE IF c = "B" THEN "b" ELSE IF c = "X" THEN "x" ELSE c

\* str.lower()
Lower(str) == [k \in 1..Len(str) |-> LowerChar(str[k])]

\* sub in str
Contains(str, sub) ==
  \E k \in 0..(Len(str) - Len(sub)) : SubSeq(str, k + 1, k + Len(sub)) = sub

(***************************************************************************)
(* _cosine_similarity and _get_node_relevance_score                        *)
(***************************************************************************)
\* sum(a * a for a in v) ** 0.5, for the vectors of the model, whose norm
\* is a whole number
Norm(v) == CHOOSE n \in 0..Dot(v, v) : n * n = Dot(v, v)

\* _cosine_similarity: the dot product and the norms of the vectors of the
\* model are computed exactly, the division rounds
CosineSimilarity(vec1, vec2) ==
  IF Norm(vec1) * Norm(vec2) > 0
  THEN RoundNearestEven(Dot(vec1, vec2) * FloatUnit, Norm(vec1) * Norm(vec2))
  ELSE 0

\* variant: the boost of a path is negative
PathBoost_Negative(p) == -Float(13, 10)

\* "Path-based boost factor"
PathBoost(p) ==
  IF p = <<>> THEN Float(1, 1)
  ELSE LET by_length   == IF Len(p) = 1 THEN Float(13, 10)
                          ELSE IF Len(p) = 2 THEN Float(115, 100)
                          ELSE Float(105, 100)
           with_parent == IF "parent" \in Range(p)
                          THEN FMul(by_length, Float(12, 10)) ELSE by_length
       IN  IF "child" \in Range(p)
           THEN FMul(with_parent, Float(13, 10)) ELSE with_parent

\* content = doc.get("full_context", "") or doc.get("content", "")
ContentOf(d) == IF d.full_context # <<>> THEN d.full_context ELSE d.content

\* topic_matches
TopicMatches(d, tps) ==
  Cardinality({k \in 1..Len(tps) :
                 Contains(Lower(d.header \o <<" ">> \o ContentOf(d)), Lower(tps[k]))})

\* "Topic match boost"
TopicBoost(d, tps) ==
  IF TopicMatches(d, tps) > 0
  THEN FAdd(Float(1, 1), FMul(Float(TopicMatches(d, tps), 1), Float(1, 10)))
  ELSE Float(1, 1)

\* "Header level boost"
LevelBoost(d) ==
  IF d.level = 1 THEN Float(13, 10)
  ELSE IF d.level = 2 THEN Float(12, 10)
  ELSE Float(1, 1)

\* _get_node_relevance_score on the document d read for node_id (None when
\* there is none)
GetNodeRelevanceScore(d, q, tps, p) ==
  IF d = None \/ "embedding" \notin DOMAIN d THEN 0
  ELSE FMul(FMul(FMul(CosineSimilarity(q, d.embedding), PathBoost(p)),
                 TopicBoost(d, tps)),
            LevelBoost(d))

\* the embeddings of the documents and queries of the model
ScoreVectors ==
  {<<1, 0>>, <<0, 1>>, <<-1, 0>>, <<3, 4>>, <<4, 3>>, <<5, 12>>, <<0, 0>>}

\* the discovery paths a score is computed for
ScorePaths ==
  {<<>>, <<"seed">>, <<"seed", "parent">>, <<"seed", "child">>,
   <<"seed", "sibling">>, <<"seed", "parent", "child">>,
   <<"seed", "semantic", "same_level">>}

\* the topic lists a score is computed for
TopicLists == {<<>>, <<<<"a">>>>, <<<<"A">>, <<"x">>, <<"z">>>>}

\* the documents a score is computed for: None, a document without the
\* field embedding, and documents with every embedding and level
ScoreDocs ==
  {None, [level |-> 1, header |-> <<"A">>, full_context |-> <<"x">>, content |-> <<"x">>]}
  \cup {[embedding |-> e, level |-> l, header |-> <<"A">>,
         full_context |-> fc, content |-> <<"x">>] :
          e \in ScoreVectors, l \in 0..3, fc \in {<<>>, <<"b">>}}

InitScore ==
  /\ ChunkerIdle
  /\ StoreIdle
  /\ TraverseIdle
  /\ LoaderIdle
  /\ pc = "score"
  /\ node_doc \in ScoreDocs
  /\ query_embedding \in ScoreVectors
  /\ topics \in TopicLists
  /\ node_path \in ScorePaths
  /\ relevance = 0
  /\ source_module = ""
  /\ last_query_stats = <<>>
  /\ call = <<>>
  /\ upserts = 0

\* one call of _get_node_relevance_score
GetScore ==
  /\ pc = "score"
  /\ pc' = "scored"
  /\ relevance' = GetNodeRelevanceScore(node_doc, query_embedding, topics, node_path)
  /\ UNCHANGED <<node_doc, query_embedding, topics, node_path>>
  /\ UNCHANGED <<chunkerVars, storeVars, traverseVars, searchVars, loaderVars>>

NextScore == GetScore

SpecScore == InitScore /\ [][NextScore]_vars

\* the document of the call carries an embedding
Scorable == node_doc # None /\ "embedding" \in DOMAIN node_doc

\* C18: the score returned is >= 0 for every document, query embedding,
\* topic list and discovery path, opposing embeddings included.
C18_ScoreNonNegative ==
  pc = "scored" => relevance >= 0

\* C19: for a seed, whose discovery path is [seed], the path boost is 1.0,
\* so that the score is similarity x topic boost x level boost.
C19_SeedPathBoostIsOne ==
  (pc = "scored" /\ Scorable /\ node_path = <<"seed">>) =>
    /\ PathBoost(node_path) = Float(1, 1)
    /\ relevance = FMul(FMul(CosineSimilarity(query_embedding, node_doc.embedding),
                             TopicBoost(node_doc, topics)),
                        LevelBoost(node_doc))

\* the score of the document of the call with the embedding e in place of
\* its own, everything else being the same
ScoreWithEmbedding(e) ==
  GetNodeRelevanceScore([node_doc EXCEPT !.embedding = e], query_embedding,
                        topics, node_path)

\* C20: for a fixed path, topic list, text and level the score is strictly
\* increasing in the cosine similarity: s1 < s2 implies score(s1) < score(s2).
C20_ScoreStrictlyIncreasing ==
  (pc = "scored" /\ Scorable) =>
    \A e \in ScoreVectors :
      CosineSimilarity(query_embedding, node_doc.embedding)
          < CosineSimilarity(query_embedding, e)
        => relevance < ScoreWithEmbedding(e)

\* C20, amended: the score is non-decreasing in the cosine similarity:
\* s1 < s2 implies score(s1) <= score(s2); two similarities that differ may
\* round to the same score.
C20_ScoreNonDecreasing ==
  (pc = "scored" /\ Scorable) =>
    \A e \in ScoreVectors :
      CosineSimilarity(query_embedding, node_doc.embedding)
          < CosineSimilarity(query_embedding, e)
        => relevance <= ScoreWithEmbedding(e)

\* a score has been computed that is positive and smaller than the score of
\* the same document with an embedding of greater similarity, and equal to
\* that of the same document with another embedding of greater similarity
C20_Witness ==
  /\ pc = "scored"
  /\ Scorable
  /\ relevance > 0
  /\ \E e \in ScoreVectors :
       /\ CosineSimilarity(query_embedding, node_doc.embedding)
            < CosineSimilarity(query_embedding, e)
       /\ relevance < ScoreWithEmbedding(e)
  /\ \E e \in ScoreVectors :
       /\ CosineSimilarity(query_embedding, node_doc.embedding)
            < CosineSimilarity(query_embedding, e)
       /\ relevance = ScoreWithEmbedding(e)

(***************************************************************************)
(* _extract_topics_from_query                                              *)
(***************************************************************************)
\* the characters str.split() and str.strip() take for whitespace
Whitespace == {" ", "\t", "\n"}

RECURSIVE SplitOn(_, _, _, _)
\* str.split(sep) for a one-character sep: words is the list of the pieces
\* closed so far, word the piece being read
SplitOn(str, seps, words, word) ==
  IF str = <<>> THEN Append(words, word)
  ELSE IF Head(str) \in seps THEN SplitOn(Tail(str), seps, Append(words, word), <<>>)
  ELSE SplitOn(Tail(str), seps, words, Append(word, Head(str)))

NonEmpty(str) == str # <<>>

\* str.split(): the runs of characters other than whitespace
SplitWhitespace(str) == SelectSeq(SplitOn(str, Whitespace, <<>>, <<>>), NonEmpty)

RECURSIVE StripLeft(_)
StripLeft(str) ==
  IF str # <<>> /\ Head(str) \in Whitespace THEN StripLeft(Tail(str)) ELSE str

RECURSIVE StripRight(_)
StripRight(str) ==
  IF str # <<>> /\ str[Len(str)] \in Whitespace
  THEN StripRight(SubSeq(str, 1, Len(str) - 1)) ELSE str

\* str.strip()
Strip(str) == StripRight(StripLeft(str))

\* the try branch: the topics read from the content of the answer
ServiceTopics(content) ==
  LET pieces == SplitOn(Strip(content), {","}, <<>>, <<>>)
  IN  SelectSeq([k \in 1..Len(pieces) |-> Strip(pieces[k])], NonEmpty)

LongerThan3(w) == Len(w) > 3

\* variant: the words of 4 characters are kept too
FallbackTopics_FourCharacters(query) == SelectSeq(SplitWhitespace(query), LongerThan3)

LongerThan4(w) == Len(w) > 4

\* the except branch: "Fallback: simple extraction"
FallbackTopics(query) == SelectSeq(SplitWhitespace(query), LongerThan4)

(***************************************************************************)
(* search: the reads of the store and the computations between them        *)
(***************************************************************************)
\* collection.find(...): the documents of the store with their _id, in the
\* order of NodeOrder, the order in which the documents of the model are
\* inserted
Find(coll) ==
  LET Stored(id) == id \in DOMAIN coll
      ids == SelectSeq(NodeOrder, Stored)
  IN  [k \in 1..Len(ids) |-> [_id |-> ids[k]] @@ coll[ids[k]]]

\* _get_document_by_id: collection.find_one({"_id": doc_id})
GetDocumentById(coll, doc_id) ==
  IF doc_id \in DOMAIN coll THEN coll[doc_id] ELSE None

\* sorted(pairs, key=lambda x: x[1], reverse=True): a stable sort of the
\* pairs <<item, score>> by descending score
SortByScore(pairs) ==
  LET Rank(i) == 1 + Cardinality({j \in 1..Len(pairs) :
                                    \/ pairs[j][2] > pairs[i][2]
                                    \/ pairs[j][2] = pairs[i][2] /\ j < i})
  IN  [r \in 1..Len(pairs) |-> pairs[CHOOSE i \in 1..Len(pairs) : Rank(i) = r]]

\* seq[:n] for n >= 0
Prefix(seq, n) == SubSeq(seq, 1, IF Len(seq) < n THEN Len(seq) ELSE n)

\* _score_documents
ScoreDocuments(q, documents) ==
  LET HasEmbedding(d) == "embedding" \in DOMAIN d /\ d.embedding # <<>>
      scorable == SelectSeq(documents, HasEmbedding)
  IN  SortByScore([k \in 1..Len(scorable) |->
                     <<scorable[k], CosineSimilarity(q, scorable[k].embedding)>>])

\* seed_node_ids
SeedNodeIds(q, documents, n_seed_results) ==
  LET seed_docs == Prefix(ScoreDocuments(q, documents), n_seed_results)
  IN  [k \in 1..Len(seed_docs) |-> seed_docs[k][1]._id]

RECURSIVE RunTraversal(_, _, _, _)
\* the while loop of _traverse_graph, run to its end
RunTraversal(t, docs, maxn, maxd) ==
  IF t.nodes_to_explore = <<>> \/ Cardinality(t.visited) >= maxn THEN t
  ELSE LET current_node == Head(t.nodes_to_explore)[1]
           depth        == Head(t.nodes_to_explore)[2]
           popped       == [t EXCEPT !.nodes_to_explore = Tail(@)]
       IN  IF DepthLimitReached(depth, maxd) \/ current_node \notin DOMAIN DocMap(docs)
           THEN RunTraversal(popped, docs, maxn, maxd)
           ELSE RunTraversal(Expand(popped, docs, DocMap(docs)[current_node],
                                    current_node, depth),
                             docs, maxn, maxd)

\* _traverse_graph on the documents docs read at its start
TraverseGraph(docs, seeds, maxn, maxd) ==
  RunTraversal(
    [visited             |-> Range(seeds),
     nodes_to_explore    |-> [k \in 1..Len(seeds) |-> <<seeds[k], 0>>],
     discovery_paths     |-> [node \in Range(seeds) |-> <<"seed">>],
     relationship_counts |-> [parent |-> 0, child |-> 0, sibling |-> 0,
                              semantic |-> 0, topic |-> 0],
     enqueued            |-> <<>>],
    docs, maxn, maxd)

\* list(visited): the ids of a set in one of the orders a set can be listed
ListsOf(ids) == {l \in [1..Cardinality(ids) -> ids] : Range(l) = ids}

\* variant: the scores are left in the order of all_visited_node_ids
SortFinalScores_Unsorted(final_scores) == final_scores

\* final_scores.sort(key=lambda x: x[1], reverse=True)
SortFinalScores(final_scores) == SortByScore(final_scores)

\* variant: the result for a store without embeddings has no document
NoInformationResult_EmptyList ==
  [documents   |-> <<>>,
   scores      |-> <<>>,
   graph_stats |-> [error |-> "No documents with embeddings found"]]

\* the result search returns for a store without embeddings
NoInformationResult ==
  [documents   |-> << <<"No information found in the database.">> >>,
   scores      |-> <<0>>,
   graph_stats |-> [error |-> "No documents with embeddings found"]]

\* the result search returns from its except block
ErrorResult(e) ==
  [documents   |-> << <<"Error searching for information: ", e>> >>,
   scores      |-> <<0>>,
   graph_stats |-> [error |-> e]]

\* the statistics a call computes from its own locals (the measured
\* execution time is left out)
QueryStats(c) ==
  LET top == Prefix(c.final_scores, c.n_total_results)
      top_node_ids == {top[k][1] : k \in 1..Len(top)}
  IN  [seed_nodes            |-> Len(c.seed_node_ids),
       graph_traversed_nodes |-> Len(c.all_visited_node_ids) - Len(c.seed_node_ids),
       total_nodes           |-> Len(c.all_visited_node_ids),
       relationship_counts   |-> c.relationship_counts,
       topics                |-> c.topics,
       discovery_paths       |-> [id \in DOMAIN c.discovery_paths \cap top_node_ids |->
                                    c.discovery_paths[id]]]

(***************************************************************************)
(* search, one step per call of a service or of the store                  *)
(***************************************************************************)
MaxQueryLen == 5

MaxSeedResults == 2

MaxTotalResults == 2

MaxUpserts == 1

\* the two modules that define the class EnhancedGraphRAG
SourceModules == {"graph_rag_enhanced", "avosBot"}

\* the module graph_rag_enhanced imports traceback, the module avosBot
\* does not
TracebackImported(module) == module = "graph_rag_enhanced"

\* the levels, embeddings and texts given to the four documents
SearchProfiles ==
  { [level        |-> <<1, 2, 2, 1>>,
     embedding    |-> <<<<1, 0>>, <<3, 4>>, <<4, 3>>, <<-1, 0>>>>,
     header       |-> <<<<"A">>, <<"B">>, <<"B">>, <<"A">>>>,
     full_context |-> <<<<"a", "a", "a", "a", "a">>, <<"x">>, <<"y">>, <<"z">>>>],
    [level        |-> <<0, 0, 0, 0>>,
     embedding    |-> <<<<0, 1>>, <<0, 1>>, <<4, 3>>, <<3, 4>>>>,
     header       |-> <<<<"A">>, <<"A">>, <<"B">>, <<"B">>>>,
     full_context |-> <<<<"x">>, <<"y">>, <<"A", "a", "a", "a", "a">>, <<"z">>>>] }

\* the parents given to the four documents
SearchParents ==
  { [id \in NodeIds |-> None],
    (NodeOrder[1] :> None) @@ (NodeOrder[2] :> NodeOrder[1])
       @@ (NodeOrder[3] :> NodeOrder[1]) @@ (NodeOrder[4] :> NodeOrder[2]),
    (NodeOrder[1] :> DanglingId) @@ (NodeOrder[2] :> NodeOrder[1])
       @@ (NodeOrder[3] :> None) @@ (NodeOrder[4] :> None) }

\* the document add_confluence_chunk stores for the k-th id
StoredDoc(k, parent, prof) ==
  [parent_chunk_id |-> parent,
   page_id         |-> NodeOrder[k][1],
   level           |-> prof.level[k],
   embedding       |-> prof.embedding[k],
   header          |-> prof.header[k],
   full_context    |-> prof.full_context[k],
   content         |-> prof.full_context[k]]

\* the store that holds the first n documents
StoreOf(n, parents, prof) ==
  [id \in {NodeOrder[k] : k \in 1..n} |->
     StoredDoc(CHOOSE k \in 1..n : NodeOrder[k] = id, parents[id], prof)]

SearchStores ==
  {StoreOf(n, parents, prof) :
     n \in {0, 2, Len(NodeOrder)}, parents \in SearchParents, prof \in SearchProfiles}

\* the store of the calls whose query is varied
SmallStore ==
  StoreOf(2, [id \in NodeIds |-> None],
          CHOOSE prof \in SearchProfiles : prof.level[1] = 1)

\* the document an ingestion that runs beside a search upserts
UpsertDocs ==
  { [id  |-> NodeOrder[1],
     doc |-> [parent_chunk_id |-> None, page_id |-> 1, level |-> 1,
              embedding |-> <<-1, 0>>, header |-> <<"A">>,
              full_context |-> <<"n", "e", "w">>, content |-> <<"n", "e", "w">>]] }

\* the queries
QueryChars == {"a", " "}

Queries == SeqsUpTo(QueryChars, MaxQueryLen)

FewQueries ==
  { <<"x", "\t", " ", "A", "a", "a", "a", "a", "\n", "a", "a", "a", "a">> }

\* the vectors the embedding service answers with
QueryVectors == {<<1, 0>>, <<0, 1>>}

\* the contents the topic service answers with
ServiceAnswers == {<<" ", "A", ",", ",", " ", "x", " ">>}

\* the arguments and the store of one call
SearchInputs ==
  {[query |-> q, store |-> SmallStore, n_seed_results |-> 1,
    n_total_results |-> 1, max_traversal_depth |-> 1] : q \in Queries}
  \cup
  {[query |-> q, store |-> st, n_seed_results |-> ns,
    n_total_results |-> nt, max_traversal_depth |-> md] :
     q \in FewQueries, st \in SearchStores, ns \in 1..MaxSeedResults,
     nt \in 1..MaxTotalResults, md \in 1..MaxMaxDepth}

\* the locals of a call at "try:"
InitialCall(inp) ==
  [pc                   |-> "embed",
   query                |-> inp.query,
   n_seed_results       |-> inp.n_seed_results,
   n_total_results      |-> inp.n_total_results,
   max_traversal_depth  |-> inp.max_traversal_depth,
   query_embedding      |-> <<>>,
   topics               |-> <<>>,
   all_docs             |-> <<>>,
   seed_node_ids        |-> <<>>,
   all_visited_node_ids |-> <<>>,
   discovery_paths      |-> <<>>,
   relationship_counts  |-> <<>>,
   final_scores         |-> <<>>,
   final_docs           |-> <<>>,
   scores               |-> <<>>,
   fetched              |-> 0,
   result               |-> <<>>,
   fallback             |-> FALSE,
   failed               |-> "",
   start_store          |-> inp.store]

\* one call of search on an instance of either module
InitSearch ==
  /\ ChunkerIdle
  /\ TraverseIdle
  /\ LoaderIdle
  /\ pc = "search"
  /\ processed_pages = {}
  /\ node_doc = <<>>
  /\ query_embedding = <<>>
  /\ topics = <<>>
  /\ node_path = <<>>
  /\ relevance = 0
  /\ source_module \in SourceModules
  /\ last_query_stats = <<>>
  /\ upserts = 0
  /\ \E inp \in SearchInputs :
       /\ collection = inp.store
       /\ call = (1 :> InitialCall(inp))

otherThanSearch == <<pc, chunkerVars, traverseVars, scoreVars, processed_pages, loaderVars>>

Running(c) == call[c].pc \notin {"done", "raised"}

\* query_embedding = self._compute_embedding(query)
ComputeEmbedding(c) ==
  /\ call[c].pc = "embed"
  /\ \E e \in QueryVectors :
       call' = [call EXCEPT ![c].query_embedding = e, ![c].pc = "topics"]
  /\ UNCHANGED <<collection, source_module, last_query_stats, upserts>>
  /\ UNCHANGED otherThanSearch

\* topics = self._extract_topics_from_query(query), the service answers
ExtractTopics(c) ==
  /\ call[c].pc = "topics"
  /\ \E content \in ServiceAnswers :
       call' = [call EXCEPT ![c].topics = ServiceTopics(content), ![c].pc = "find"]
  /\ UNCHANGED <<collection, source_module, last_query_stats, upserts>>
  /\ UNCHANGED otherThanSearch

\* topics = self._extract_topics_from_query(query), the service raises
ExtractTopicsFallback(c) ==
  /\ call[c].pc = "topics"
  /\ call' = [call EXCEPT ![c].topics = FallbackTopics(call[c].query),
                          ![c].fallback = TRUE,
                          ![c].pc = "find"]
  /\ UNCHANGED <<collection, source_module, last_query_stats, upserts>>
  /\ UNCHANGED otherThanSearch

\* all_docs = list(self.collection.find({"embedding": {"$exists": True}})),
\* the return of the no-information result or the choice of the seeds
FindDocuments(c) ==
  /\ call[c].pc = "find"
  /\ LET WithEmbedding(d) == "embedding" \in DOMAIN d
         docs == SelectSeq(Find(collection), WithEmbedding)
     IN  IF docs = <<>>
         THEN call' = [call EXCEPT ![c].result = NoInformationResult,
                                   ![c].pc = "done"]
         ELSE call' = [call EXCEPT
                ![c].all_docs = docs,
                ![c].seed_node_ids =
                   SeedNodeIds(call[c].query_embedding, docs, call[c].n_seed_results),
                ![c].pc = "traverse"]
  /\ UNCHANGED <<collection, source_module, last_query_stats, upserts>>
  /\ UNCHANGED otherThanSearch

\* traversal_result = self._traverse_graph(...), which reads the store at
\* its start, and all_visited_node_ids = list(visited)
Traverse(c) ==
  /\ call[c].pc = "traverse"
  /\ LET t == TraverseGraph(Find(collection), call[c].seed_node_ids,
                            call[c].n_total_results * 3, call[c].max_traversal_depth)
     IN  \E l \in ListsOf(t.visited) :
           call' = [call EXCEPT ![c].all_visited_node_ids = l,
                                ![c].discovery_paths = t.discovery_paths,
                                ![c].relationship_counts = t.relationship_counts,
                                ![c].pc = "score"]
  /\ UNCHANGED <<collection, source_module, last_query_stats, upserts>>
  /\ UNCHANGED otherThanSearch

\* one iteration of "for node_id in all_visited_node_ids"
ScoreNode(c) ==
  /\ call[c].pc = "score"
  /\ Len(call[c].final_scores) < Len(call[c].all_visited_node_ids)
  /\ LET node_id == call[c].all_visited_node_ids[Len(call[c].final_scores) + 1]
         score   == GetNodeRelevanceScore(GetDocumentById(collection, node_id),
                                          call[c].query_embedding, call[c].topics,
                                          PathOf(call[c].discovery_paths, node_id))
     IN  call' = [call EXCEPT ![c].final_scores = Append(@, <<node_id, score>>)]
  /\ UNCHANGED <<collection, source_module, last_query_stats, upserts>>
  /\ UNCHANGED otherThanSearch

\* final_scores.sort(...) at the end of the loop
SortScores(c) ==
  /\ call[c].pc = "score"
  /\ Len(call[c].final_scores) = Len(call[c].all_visited_node_ids)
  /\ call' = [call EXCEPT ![c].final_scores = SortFinalScores(@), ![c].pc = "fetch"]
  /\ UNCHANGED <<collection, source_module, last_query_stats, upserts>>
  /\ UNCHANGED otherThanSearch

\* one iteration of "for node_id, score in final_scores[:n_total_results]"
FetchDocument(c) ==
  /\ call[c].pc = "fetch"
  /\ call[c].fetched < Len(Prefix(call[c].final_scores, call[c].n_total_results))
  /\ LET entry == call[c].final_scores[call[c].fetched + 1]
         d     == GetDocumentById(collection, entry[1])
     IN  IF d # None
         THEN call' = [call EXCEPT ![c].final_docs = Append(@, d.full_context),
                                   ![c].scores = Append(@, entry[2]),
                                   ![c].fetched = @ + 1]
         ELSE call' = [call EXCEPT ![c].fetched = @ + 1]
  /\ UNCHANGED <<collection, source_module, last_query_stats, upserts>>
  /\ UNCHANGED otherThanSearch

\* self.last_query_stats = {...}
AssignStats(c) ==
  /\ call[c].pc = "fetch"
  /\ call[c].fetched = Len(Prefix(call[c].final_scores, call[c].n_total_results))
  /\ last_query_stats' = QueryStats(call[c])
  /\ call' = [call EXCEPT ![c].pc = "return"]
  /\ UNCHANGED <<collection, source_module, upserts>>
  /\ UNCHANGED otherThanSearch

\* return {"documents": final_docs, "scores": scores,
\*         "graph_stats": self.last_query_stats}
ReturnResult(c) ==
  /\ call[c].pc = "return"
  /\ call' = [call EXCEPT ![c].result = [documents   |-> call[c].final_docs,
                                         scores      |-> call[c].scores,
                                         graph_stats |-> last_query_stats],
                          ![c].pc = "done"]
  /\ UNCHANGED <<collection, source_module, last_query_stats, upserts>>
  /\ UNCHANGED otherThanSearch

\* the embedding service or a read of the store raises
Raise(c) ==
  /\ \/ call[c].pc \in {"embed", "find", "traverse"}
     \/ call[c].pc = "score"
          /\ Len(call[c].final_scores) < Len(call[c].all_visited_node_ids)
     \/ call[c].pc = "fetch"
          /\ call[c].fetched < Len(Prefix(call[c].final_scores, call[c].n_total_results))
  /\ call' = [call EXCEPT ![c].failed = call[c].pc, ![c].pc = "except"]
  /\ UNCHANGED <<collection, source_module, last_query_stats, upserts>>
  /\ UNCHANGED otherThanSearch

\* "except Exception as e" in a module that imports traceback
HandleException(c) ==
  /\ call[c].pc = "except"
  /\ TracebackImported(source_module)
  /\ call' = [call EXCEPT ![c].result = ErrorResult(call[c].failed), ![c].pc = "done"]
  /\ UNCHANGED <<collection, source_module, last_query_stats, upserts>>
  /\ UNCHANGED otherThanSearch

\* "except Exception as e" in a module that does not: traceback.format_exc()
\* raises NameError, which leaves search
HandlerRaises(c) ==
  /\ call[c].pc = "except"
  /\ ~TracebackImported(source_module)
  /\ call' = [call EXCEPT ![c].pc = "raised"]
  /\ UNCHANGED <<collection, source_module, last_query_stats, upserts>>
  /\ UNCHANGED otherThanSearch

\* an ingestion that runs beside the search upserts one document
IngestChunk ==
  /\ upserts < MaxUpserts
  /\ \E c \in DOMAIN call : Running(c)
  /\ \E u \in UpsertDocs : collection' = (u.id :> u.doc) @@ collection
  /\ upserts' = upserts + 1
  /\ UNCHANGED <<source_module, last_query_stats, call>>
  /\ UNCHANGED otherThanSearch

SearchStep(c) ==
  \/ ComputeEmbedding(c)
  \/ ExtractTopics(c)
  \/ ExtractTopicsFallback(c)
  \/ FindDocuments(c)
  \/ Traverse(c)
  \/ ScoreNode(c)
  \/ SortScores(c)
  \/ FetchDocument(c)
  \/ AssignStats(c)
  \/ ReturnResult(c)

NextSearch ==
  \/ \E c \in DOMAIN call : SearchStep(c)
  \/ \E c \in DOMAIN call : Raise(c)
  \/ \E c \in DOMAIN call : HandleException(c)
  \/ \E c \in DOMAIN call : HandlerRaises(c)
  \/ IngestChunk

SpecSearch == InitSearch /\ [][NextSearch]_vars

\* the stores of the calls that run concurrently
ConcurrentStores ==
  {SmallStore,
   StoreOf(3, [id \in NodeIds |-> NodeOrder[3]],
           CHOOSE prof \in SearchProfiles : prof.level[1] = 0)}

\* the arguments of a call that runs beside another one
ConcurrentInput(q, st) ==
  [query |-> q, store |-> st, n_seed_results |-> 1,
   n_total_results |-> 1, max_traversal_depth |-> 1]

\* two calls of search run concurrently on enhanced_rag, the instance the
\* module avosBot creates, with working services and a store that does not
\* change

InitConcurrent ==
  /\ ChunkerIdle
  /\ TraverseIdle
  /\ LoaderIdle
  /\ pc = "search"
  /\ processed_pages = {}
  /\ node_doc = <<>>
  /\ query_embedding = <<>>
  /\ topics = <<>>
  /\ node_path = <<>>
  /\ relevance = 0
  /\ source_module = "avosBot"
  /\ last_query_stats = <<>>
  /\ upserts = 0
  /\ \E st \in ConcurrentStores, q \in FewQueries :
       /\ collection = st
       /\ call = (1 :> InitialCall(ConcurrentInput(<<"a", "a", "a", "a", "a">>, st)))
                   @@ (2 :> InitialCall(ConcurrentInput(q, st)))

NextConcurrent == \E c \in DOMAIN call : SearchStep(c)

SpecConcurrent == InitConcurrent /\ [][NextConcurrent]_vars

\* the call c has returned from the end of the try block
ReturnedNormally(c) ==
  call[c].pc = "done" /\ call[c].failed = "" /\ call[c].all_docs # <<>>

\* C12: two concurrent calls on one instance share no mutable state: under
\* every interleaving each call returns the diagnostics (graph_stats)
\* computed from its own query, never those of the other call.
C12_OwnDiagnosticsReturned ==
  \A c \in DOMAIN call :
    ReturnedNormally(c) => call[c].result.graph_stats = QueryStats(call[c])

\* what the call c would compute from the store as it was at the start of
\* the call, with its query embedding, its topics and its listing of the
\* visited set
SnapshotSeeds(c) ==
  LET WithEmbedding(d) == "embedding" \in DOMAIN d
  IN  SeedNodeIds(c.query_embedding, SelectSeq(Find(c.start_store), WithEmbedding),
                  c.n_seed_results)

\* the traversal from those seeds on that store
SnapshotTraversal(c) ==
  TraverseGraph(Find(c.start_store), SnapshotSeeds(c),
                c.n_total_results * 3, c.max_traversal_depth)

\* the scores of the ids listed in c.all_visited_node_ids, with the paths
\* of the traversal t, sorted
SnapshotScores(c, t) ==
  SortFinalScores(
    [k \in 1..Len(c.all_visited_node_ids) |->
       <<c.all_visited_node_ids[k],
         GetNodeRelevanceScore(GetDocumentById(c.start_store, c.all_visited_node_ids[k]),
                               c.query_embedding, c.topics,
                               PathOf(t.discovery_paths, c.all_visited_node_ids[k]))>>])

\* the entries of the sorted scores fs that are returned
SnapshotTop(c, fs) ==
  LET Stored(entry) == entry[1] \in DOMAIN c.start_store
  IN  SelectSeq(Prefix(fs, c.n_total_results), Stored)

\* C13: a call reads what it needs from the store once, at its start: an
\* upsert made later during the call changes neither the seeds, nor the
\* visited set, nor the scores, nor the documents the call returns.
C13_ResultFromStartSnapshot ==
  \A c \in DOMAIN call :
    (call[c].pc = "done" /\ call[c].failed = "") =>
      IF DOMAIN call[c].start_store = {}
      THEN call[c].result.scores = <<0>> /\ "error" \in DOMAIN call[c].result.graph_stats
      ELSE LET t   == SnapshotTraversal(call[c])
               fs  == SnapshotScores(call[c], t)
               top == SnapshotTop(call[c], fs)
           IN  /\ call[c].seed_node_ids = SnapshotSeeds(call[c])
               /\ Range(call[c].all_visited_node_ids) = t.visited
               /\ call[c].final_scores = fs
               /\ call[c].result.scores = [k \in 1..Len(top) |-> top[k][2]]
               /\ call[c].result.documents =
                    [k \in 1..Len(top) |-> call[c].start_store[top[k][1]].full_context]

\* C14: search never lets an exception escape to its caller, in either
\* module: whenever a service or the store raises, the call returns a
\* result with documents, scores and graph_stats.error.
C14_NoExceptionEscapes ==
  \A c \in DOMAIN call :
    /\ call[c].pc # "raised"
    /\ (call[c].pc = "done" /\ call[c].failed # "") =>
         /\ Len(call[c].result.documents) = 1
         /\ call[c].result.scores = <<0>>
         /\ "error" \in DOMAIN call[c].result.graph_stats

\* the call c has ended and the store has held no document during it
EndedOnEmptyStore(c) ==
  call[c].pc \in {"done", "raised"} /\ DOMAIN collection = {}

\* the result of the call c is the one 'no information found' document with
\* the score 0.0
NoInformationReturned(c) ==
  /\ call[c].pc = "done"
  /\ call[c].result.documents = << <<"No information found in the database.">> >>
  /\ call[c].result.scores = <<0>>

C16_TopResultsInOrder ==
  \A c \in DOMAIN call :
    ReturnedNormally(c) =>
      LET r   == call[c].result
          fs  == call[c].final_scores
          cut == call[c].n_total_results
      IN  /\ Len(r.documents) = Len(r.scores)
          /\ Len(r.scores) <= cut
          /\ \A j \in 1..(Len(r.scores) - 1) : r.scores[j] >= r.scores[j + 1]
          /\ \A k \in (cut + 1)..Len(fs) :
               fs[k][1] \in DOMAIN call[c].start_store =>
                 \A j \in 1..Len(r.scores) : fs[k][2] <= r.scores[j]
          /\ Len(r.scores) >=
               Cardinality({k \in 1..Len(fs) :
                              k <= cut /\ fs[k][1] \in DOMAIN call[c].start_store})

\* a call has returned two documents with different scores and has left
\* out a visited node of the store, and the sort has changed the order in
\* which the visited nodes were listed
C16_Witness ==
  /\ ReturnedNormally(1)
  /\ Len(call[1].result.scores) = 2
  /\ call[1].result.scores[1] > call[1].result.scores[2]
  /\ \E k \in 3..Len(call[1].final_scores) :
       call[1].final_scores[k][1] \in DOMAIN call[1].start_store
  /\ call[1].all_visited_node_ids #
       [k \in 1..Len(call[1].final_scores) |-> call[1].final_scores[k][1]]

\* the words of the query longer than 4 characters, read off the query: the
\* maximal runs of characters other than whitespace, in their order
LongWords(query) ==
  LET IsSpace(i) == i < 1 \/ i > Len(query) \/ query[i] \in Whitespace
      starts == {i \in 1..Len(query) : ~IsSpace(i) /\ IsSpace(i - 1)}
      EndOf(i) == SetMin({j \in i..Len(query) : IsSpace(j + 1)})
      long == AscSeq({i \in starts : EndOf(i) - i + 1 > 4})
  IN  [k \in 1..Len(long) |-> SubSeq(query, long[k], EndOf(long[k]))]

\* C17: when the topic service raises, _extract_topics_from_query returns
\* exactly the whitespace-separated words of the query longer than 4
\* characters, and the search goes on to a normal result.
C17_FallbackTopicsAndNormalResult ==
  \A c \in DOMAIN call :
    call[c].fallback =>
      /\ call[c].topics = LongWords(call[c].query)
      /\ call[c].failed # "topics"
      /\ ReturnedNormally(c) =>
           /\ "error" \notin DOMAIN call[c].result.graph_stats
           /\ call[c].result.graph_stats.topics = LongWords(call[c].query)
           /\ Len(call[c].result.documents) = Len(call[c].result.scores)

\* a call has returned normally after the fallback, which has kept a word
\* of the query and dropped another one
C17_Witness ==
  /\ ReturnedNormally(1)
  /\ call[1].fallback
  /\ Len(call[1].topics) >= 1
  /\ Len(SplitWhitespace(call[1].query)) > Len(call[1].topics)
  /\ "error" \notin DOMAIN call[1].result.graph_stats


(***************************************************************************)
(* _traverse_graph: the diagnostics, the depth limit and the paths         *)
(***************************************************************************)
\* the hop labels a discovery path is made of, after "seed"
HopLabels == {"parent", "child", "sibling", "same_level", "semantic"}

\* the label that ends the discovery path of id
LastLabel(id) == discovery_paths[id][Len(discovery_paths[id])]

\* C22: at return, for each hop label in {parent, child, sibling, same_level,
\* semantic}, relationship_counts holds under that label the number of
\* visited nodes whose discovery path ends with that label.
C22_CountsFollowLabels ==
  pc = "returned" =>
    \A label \in HopLabels :
      /\ label \in DOMAIN relationship_counts
      /\ relationship_counts[label]
           = Cardinality({id \in visited : LastLabel(id) = label})

\* C23: a worklist entry whose depth is >= max_depth is never expanded (the
\* iteration that pops it adds nothing), so every visited id has a discovery
\* path of at most max_depth + 1 labels, and with max_depth = 0 the visited
\* set equals the seed set.
C23_DepthLimitRespected ==
  /\ [](pc \in {"loop", "returned"} =>
          /\ \A id \in visited : Len(discovery_paths[id]) <= max_depth + 1
          /\ \A k \in 1..Len(nodes_to_explore) :
               nodes_to_explore[k][2] = Len(discovery_paths[nodes_to_explore[k][1]]) - 1
          /\ (max_depth = 0 => visited = Range(seed_nodes)))
  /\ [][(pc = "loop" /\ nodes_to_explore # <<>>
                     /\ Head(nodes_to_explore)[2] >= max_depth)
          => /\ UNCHANGED <<visited, discovery_paths, relationship_counts>>
             /\ nodes_to_explore' \in {nodes_to_explore, Tail(nodes_to_explore)}]_vars

\* a returned traversal with max_depth = 1 that stopped on an empty worklist
\* and left unvisited the stored parent of a document reached by one hop
C23_Witness ==
  /\ pc = "returned"
  /\ max_depth = 1
  /\ nodes_to_explore = <<>>
  /\ Cardinality(visited) < max_nodes
  /\ \E id \in visited \cap NodeIds :
       /\ Len(discovery_paths[id]) = 2
       /\ DocMap(all_docs)[id].parent_chunk_id \in NodeIds \ visited

\* C26: the traversal terminates on every snapshot, those in which the
\* parent links form a cycle or a node is its own parent included.
\* parent links that form cycles: every document its own parent; a document
\* its own parent beside two that are each other's parent; one cycle through
\* all documents; a cycle of three with a fourth document hanging on it; a
\* cycle of two whose other documents hang on it; a cycle of two beside a
\* document whose parent is not stored
CorruptedParents ==
  LET Parents(a, b, c, d) ==
        (NodeOrder[1] :> a) @@ (NodeOrder[2] :> b) @@ (NodeOrder[3] :> c) @@ (NodeOrder[4] :> d)
  IN  { Parents(NodeOrder[1], NodeOrder[2], NodeOrder[3], NodeOrder[4]),
        Parents(NodeOrder[1], NodeOrder[3], NodeOrder[2], DanglingId),
        Parents(NodeOrder[2], NodeOrder[3], NodeOrder[4], NodeOrder[1]),
        Parents(NodeOrder[2], NodeOrder[3], NodeOrder[1], NodeOrder[3]),
        Parents(NodeOrder[4], NodeOrder[1], NodeOrder[2], NodeOrder[1]),
        Parents(DanglingId, NodeOrder[1], NodeOrder[4], NodeOrder[3]) }

\* the state before the while loop, on a snapshot with such parent links
InitCorrupted ==
  /\ ChunkerIdle
  /\ StoreIdle
  /\ RetrievalIdle
  /\ LoaderIdle
  /\ pc = "loop"
  /\ \E parents \in CorruptedParents, prof \in Profiles :
       all_docs = Snapshot(parents, prof)
  /\ seed_nodes \in SeedLists
  /\ max_nodes \in {Len(seed_nodes) + 1, MaxMaxNodes}
  /\ max_depth \in 1..MaxMaxDepth
  /\ visited = Range(seed_nodes)
  /\ discovery_paths = [node \in Range(seed_nodes) |-> <<"seed">>]
  /\ nodes_to_explore = [k \in 1..Len(seed_nodes) |-> <<seed_nodes[k], 0>>]
  /\ relationship_counts =
       [parent |-> 0, child |-> 0, sibling |-> 0, semantic |-> 0, topic |-> 0]
  /\ enqueued = [k \in 1..Len(seed_nodes) |-> [id |-> seed_nodes[k], seen |-> FALSE]]

\* the loop runs on: an enabled iteration is eventually taken
SpecCorrupted == InitCorrupted /\ [][NextTraverse]_vars /\ WF_vars(NextTraverse)

C26_TraversalTerminates == <>(pc = "returned")

\* a returned traversal that has expanded a document that is its own parent
\* and two documents that are each other's parent
C26_Witness ==
  /\ pc = "returned"
  /\ \E a, b, c \in {enqueued[k].id : k \in ExpandedEntries} :
       /\ a # b /\ a # c /\ b # c
       /\ DocMap(all_docs)[a].parent_chunk_id = a
       /\ DocMap(all_docs)[b].parent_chunk_id = c
       /\ DocMap(all_docs)[c].parent_chunk_id = b

\* C30: in every state of the loop the keys of discovery_paths are exactly
\* the ids in visited, every path starts with the label "seed", and a path
\* once recorded for an id is never replaced by a later discovery of the id.
C30_PathsRecordedOnce ==
  /\ [](pc \in {"loop", "returned"} =>
          /\ DOMAIN discovery_paths = visited
          /\ \A id \in visited : /\ discovery_paths[id] # <<>>
                                 /\ Head(discovery_paths[id]) = "seed")
  /\ [][pc = "loop" =>
          \A id \in DOMAIN discovery_paths :
            /\ id \in DOMAIN discovery_paths'
            /\ discovery_paths'[id] = discovery_paths[id]]_vars

\* a returned traversal that expanded the first of two seeds that have the
\* same parent: the second seed, met again as a sibling, keeps its path
C30_Witness ==
  /\ pc = "returned"
  /\ Len(seed_nodes) = 2
  /\ 1 \in ExpandedEntries
  /\ DocMap(all_docs)[seed_nodes[1]].parent_chunk_id
       = DocMap(all_docs)[seed_nodes[2]].parent_chunk_id
  /\ DocMap(all_docs)[seed_nodes[1]].parent_chunk_id \in NodeIds \ Range(seed_nodes)
  /\ discovery_paths[seed_nodes[2]] = <<"seed">>
  /\ Cardinality(visited) >= 3


(***************************************************************************)
(* _traverse_graph on snapshots of six documents, where an expansion can   *)
(* meet three semantic neighbors while len(visited) is a multiple of 3     *)
(***************************************************************************)
\* the ids of the six documents, in the order find() returns them
SemanticOrder ==
  <<ChunkId(1, 0), ChunkId(1, 1), ChunkId(1, 2), ChunkId(1, 3), ChunkId(1, 4), ChunkId(1, 5)>>

\* the embeddings given to the six documents: three neighbors of the first
\* with decreasing similarity in another order than find(); neighbors with
\* equal similarity; neighbors beside documents below the threshold; no
\* neighbors, an all-zero embedding and documents without embedding;
\* neighbors of the third document only
SemanticEmbeddings ==
  { <<<<1, 0>>, <<2, 1>>, <<4, 1>>, <<3, 1>>, <<0, 1>>, <<>>>>,
    <<<<1, 0>>, <<>>, <<0, 1>>, <<0, 2>>, <<1, 5>>, <<1, 0>>>>,
    <<<<1, 0>>, <<1, 0>>, <<2, 0>>, <<3, 0>>, <<4, 1>>, <<0, 1>>>>,
    <<<<3, 4>>, <<4, 3>>, <<1, 0>>, <<0, 1>>, <<3, 4>>, <<6, 8>>>>,
    <<<<1, 0, 0>>, <<0, 1, 0>>, <<0, 0, 1>>, <<>>, <<>>, <<0, 0, 0>>>> }

\* the levels given to the six documents
SemanticLevels == {<<0, 0, 0, 0, 0, 0>>, <<1, 2, 2, 1, 0, 0>>}

\* the parents given to the six documents
SemanticParents ==
  { <<None, None, None, None, None, None>>,
    <<None, SemanticOrder[1], None, None, None, SemanticOrder[5]>>,
    <<None, SemanticOrder[1], SemanticOrder[2], None, None, None>>,
    <<DanglingId, None, None, SemanticOrder[3], None, None>> }

\* the seed lists of these traversals
SemanticSeeds ==
  { <<SemanticOrder[1]>>,
    <<SemanticOrder[1], SemanticOrder[2]>>,
    <<SemanticOrder[1], SemanticOrder[2], SemanticOrder[3]>>,
    <<SemanticOrder[1], SemanticOrder[5], SemanticOrder[6]>> }

\* the state before the while loop
InitSemantic ==
  /\ ChunkerIdle
  /\ StoreIdle
  /\ RetrievalIdle
  /\ LoaderIdle
  /\ pc = "loop"
  /\ \E parents \in SemanticParents, levels \in SemanticLevels,
        embeddings \in SemanticEmbeddings :
       all_docs = [k \in 1..Len(SemanticOrder) |->
                     [_id             |-> SemanticOrder[k],
                      parent_chunk_id |-> parents[k],
                      page_id         |-> SemanticOrder[k][1],
                      level           |-> levels[k],
                      embedding       |-> embeddings[k]]]
  /\ seed_nodes \in SemanticSeeds
  /\ max_nodes \in {Len(seed_nodes) + 1, Len(SemanticOrder) + 1}
  /\ max_depth \in 1..(MaxMaxDepth + 1)
  /\ visited = Range(seed_nodes)
  /\ discovery_paths = [node \in Range(seed_nodes) |-> <<"seed">>]
  /\ nodes_to_explore = [k \in 1..Len(seed_nodes) |-> <<seed_nodes[k], 0>>]
  /\ relationship_counts =
       [parent |-> 0, child |-> 0, sibling |-> 0, semantic |-> 0, topic |-> 0]
  /\ enqueued = [k \in 1..Len(seed_nodes) |-> [id |-> seed_nodes[k], seen |-> FALSE]]

SpecSemantic == InitSemantic /\ [][NextTraverse]_vars

\* the documents that are semantic candidates for the document doc when the
\* ids of seen are visited: unvisited, with an embedding, and of similarity
\* to doc strictly above 0.85
SemanticCandidates(doc, seen) ==
  {k \in 1..Len(all_docs) :
     /\ all_docs[k]._id \notin seen
     /\ doc.embedding # <<>>
     /\ all_docs[k].embedding # <<>>
     /\ Dot(doc.embedding, doc.embedding) * Dot(all_docs[k].embedding, all_docs[k].embedding) > 0
     /\ Dot(doc.embedding, all_docs[k].embedding) > 0
     /\ 400 * Dot(doc.embedding, all_docs[k].embedding) * Dot(doc.embedding, all_docs[k].embedding)
          > 289 * Dot(doc.embedding, doc.embedding)
                * Dot(all_docs[k].embedding, all_docs[k].embedding)}

\* C24: a node receives a discovery path ending in "semantic" only if, when
\* the current node was expanded, len(visited) was a multiple of 3 after the
\* four structural strategies ran and the current depth was < 2, the node was
\* unvisited and its similarity to the current node was strictly above 0.85;
\* one expansion adds at most 2 such nodes and no candidate left out is more
\* similar than one that was added.
C24_SemanticHopsGuarded ==
  [][(pc = "loop" /\ nodes_to_explore # <<>>) =>
       LET cur   == Head(nodes_to_explore)[1]
           depth == Head(nodes_to_explore)[2]
           added == {id \in visited' \ visited :
                       discovery_paths'[id][Len(discovery_paths'[id])] = "semantic"}
       IN  IF cur \notin DOMAIN DocMap(all_docs) THEN added = {}
           ELSE
             LET doc   == DocMap(all_docs)[cur]
                 t4    == StructuralStrategies(
                            [TraverseState EXCEPT !.nodes_to_explore = Tail(@)],
                            all_docs, doc, cur, depth)
                 cands == SemanticCandidates(doc, t4.visited)
             IN  /\ added # {} => (Cardinality(t4.visited) % 3 = 0 /\ depth < 2)
                 /\ added \subseteq {all_docs[k]._id : k \in cands}
                 /\ Cardinality(added) <= 2
                 /\ \A k, j \in cands :
                      (all_docs[k]._id \notin added /\ all_docs[j]._id \in added)
                        => ~SimilarityGreater(doc.embedding, all_docs[k].embedding,
                                              all_docs[j].embedding)]_vars

\* two documents have been reached by a semantic hop from an expanded
\* document while a third candidate of that document, less similar than
\* both, stays unvisited
C24_Witness ==
  /\ pc \in {"loop", "returned"}
  /\ \E cur \in visited \cap DOMAIN DocMap(all_docs) :
       \E a, b \in visited :
         /\ a # b
         /\ discovery_paths[a] = discovery_paths[cur] \o <<"semantic">>
         /\ discovery_paths[b] = discovery_paths[cur] \o <<"semantic">>
         /\ \E k \in SemanticCandidates(DocMap(all_docs)[cur], visited) :
              /\ SimilarityGreater(DocMap(all_docs)[cur].embedding,
                                   DocMap(all_docs)[a].embedding, all_docs[k].embedding)
              /\ SimilarityGreater(DocMap(all_docs)[cur].embedding,
                                   DocMap(all_docs)[b].embedding, all_docs[k].embedding)


(***************************************************************************)
(* search on a store with a parent_chunk_id that names no document         *)
(***************************************************************************)
\* C25: a parent_chunk_id that names no stored node is skipped: the call
\* returns normally, the id is not in the visited set, not counted in
\* relationship_counts nor in the total_nodes diagnostic, and adds no entry
\* to the returned documents and scores.
C25_DanglingParentSkipped ==
  \A c \in DOMAIN call :
    ReturnedNormally(c) =>
      LET stored       == DOMAIN collection
          listed       == Range(call[c].all_visited_node_ids)
          paths        == call[c].discovery_paths
          parent_found == {id \in DOMAIN paths \cap stored :
                             paths[id][Len(paths[id])] = "parent"}
      IN  /\ listed \subseteq stored
          /\ call[c].relationship_counts.parent = Cardinality(parent_found)
          /\ call[c].result.graph_stats.total_nodes = Cardinality(listed \cap stored)
          /\ Len(call[c].result.documents) = Len(call[c].result.scores)
          /\ Len(call[c].result.documents) <= Cardinality(listed \cap stored)


(***************************************************************************)
(* The similarity computations of the retrieval code                       *)
(***************************************************************************)
\* the vectors a similarity is computed on (their norms are whole numbers)
SimilarityVectors ==
  {<<>>, <<0, 0>>, <<1, 0>>, <<0, 1>>, <<3, 4>>, <<-3, -4>>, <<0, 0, 0>>, <<1, 0, 0>>}

\* a similarity that is a number
Value(x) == [outcome |-> "value", value |-> x]

\* the float nan
NaN == [outcome |-> "nan", value |-> 0]

\* no similarity: the document is passed over
Skipped == [outcome |-> "skipped", value |-> 0]

\* ConfluenceMongoDB.graph_based_retrieve: "Calculate cosine similarity"
GraphBasedRetrieveSimilarity(embedding, doc_vector) ==
  IF Norm(embedding) * Norm(doc_vector) = 0
  THEN Value(0)
  ELSE Value(RoundNearestEven(Dot(embedding, doc_vector) * FloatUnit,
                              Norm(embedding) * Norm(doc_vector)))

\* avosBot.search: "Score documents by similarity".  A document without
\* embedding is passed over; np.dot raises on arrays of different lengths and
\* the except clause passes over the document; the division of two numpy
\* floats does not raise: 0.0 / 0.0 gives nan (with a RuntimeWarning)
SearchSimilarity(q, doc_embedding) ==
  IF doc_embedding = <<>> THEN Skipped
  ELSE IF Len(q) # Len(doc_embedding) THEN Skipped
  ELSE IF Norm(q) * Norm(doc_embedding) = 0 THEN NaN
  ELSE Value(RoundNearestEven(Dot(q, doc_embedding) * FloatUnit,
                              Norm(q) * Norm(doc_embedding)))

\* two vectors are given
InitSimilarity ==
  /\ ChunkerIdle
  /\ StoreIdle
  /\ TraverseIdle
  /\ RetrievalIdle
  /\ pc = "similarity"
  /\ left_vector \in SimilarityVectors
  /\ right_vector \in SimilarityVectors
  /\ similarity = <<>>
  /\ ReloadIdle
  /\ CrawlIdle

otherThanSimilarity ==
  <<chunkerVars, storeVars, traverseVars, scoreVars, searchVars, reloadVars, crawlVars>>

\* EnhancedGraphRAG._cosine_similarity(left_vector, right_vector)
CallCosineSimilarity ==
  /\ pc = "similarity"
  /\ pc' = "_cosine_similarity"
  /\ similarity' = Value(CosineSimilarity(left_vector, right_vector))
  /\ UNCHANGED <<left_vector, right_vector>>
  /\ UNCHANGED otherThanSimilarity

\* the computation of graph_based_retrieve on a document whose embedding is
\* right_vector
ComputeInGraphBasedRetrieve ==
  /\ pc = "similarity"
  /\ pc' = "graph_based_retrieve"
  /\ similarity' = GraphBasedRetrieveSimilarity(left_vector, right_vector)
  /\ UNCHANGED <<left_vector, right_vector>>
  /\ UNCHANGED otherThanSimilarity

\* the computation of avosBot.search on a document whose embedding is
\* right_vector
ComputeInSearch ==
  /\ pc = "similarity"
  /\ pc' = "search"
  /\ similarity' = SearchSimilarity(left_vector, right_vector)
  /\ UNCHANGED <<left_vector, right_vector>>
  /\ UNCHANGED otherThanSimilarity

NextSimilarity == CallCosineSimilarity \/ ComputeInGraphBasedRetrieve \/ ComputeInSearch

SpecSimilarity == InitSimilarity /\ [][NextSimilarity]_vars

\* C21: every similarity computation (_cosine_similarity, the one of
\* graph_based_retrieve, the one of avosBot.search) yields the value 0 and
\* raises nothing when either vector has zero magnitude.
C21_ZeroMagnitudeGivesZero ==
  (pc \in {"_cosine_similarity", "graph_based_retrieve", "search"}
     /\ similarity # Skipped
     /\ (Dot(left_vector, left_vector) = 0 \/ Dot(right_vector, right_vector) = 0))
    => similarity = Value(0)


(***************************************************************************)
(* rebuild_graph_structure on a page as the chunker and main() stored it   *)
(***************************************************************************)
\* the page content made of one heading per level of the list levels, each
\* followed by one body block with text: every heading becomes a chunk
BodiedDoc(levels) ==
  [k \in 1..(2 * Len(levels)) |->
     IF k % 2 = 1 THEN Heading(levels[(k + 1) \div 2], TitleOf(levels[(k + 1) \div 2]))
     ELSE BodyBlock("x")]

\* the page contents of up to n headings of level 1..2
BodiedDocs(n) == {BodiedDoc(levels) : levels \in UNION {[1..m -> 1..2] : m \in 0..n}}

\* the store holds the chunks of page 1, whose content was all_elements
InitRebuild ==
  /\ TraverseIdle
  /\ RetrievalIdle
  /\ LoaderIdle
  /\ pc = "idle"
  /\ page_id = 1
  /\ all_elements \in BodiedDocs(MaxChunks)
  /\ idx = 0
  /\ current_headers = LoopInit.current_headers
  /\ current_chunk = None
  /\ chunk_content = <<>>
  /\ chunks = <<>>
  /\ collection = IngestOp(<<>>, page_id, all_elements)
  /\ processed_pages = {page_id}

NextRebuild == Rebuild

SpecRebuild == InitRebuild /\ [][NextRebuild]_vars

\* C27: rebuild_graph_structure walks the chunks of a page in their ordinal
\* order (chunk-0, chunk-1, ..., chunk-10, ...), so on a page whose stored
\* levels are those the chunker produced every chunk keeps the parent the
\* chunker gave it (the nearest preceding open heading of lower level).
C27_RebuildKeepsChunkerParents ==
  LET cs == ChunkContent(all_elements, page_id)
  IN  \A k \in 1..Len(cs) :
        collection[ChunkId(page_id, k - 1)].parent_chunk_id = cs[k].parent_chunk_id


(***************************************************************************)
(* confluence_api: POST /api/reload_all and the background job.  The       *)
(* server of app.run handles each request in a thread of its own, so the   *)
(* handlers interleave at their reads and writes of the global             *)
(* background_jobs; of its fields status, progress and total are kept      *)
(* (current_job, message and the timestamps are written and never tested). *)
(***************************************************************************)
\* the requests POST /api/reload_all
Requests == 1..NumRequests

\* background_jobs as the module creates it
IdleJobs == [status |-> "idle", progress |-> 0, total |-> 0]

\* the server is up and no request has arrived
InitReload ==
  /\ ChunkerIdle
  /\ StoreIdle
  /\ TraverseIdle
  /\ RetrievalIdle
  /\ SimilarityIdle
  /\ CrawlIdle
  /\ pc = "serving"
  /\ background_jobs = IdleJobs
  /\ reload_request = [r \in Requests |-> [pc |-> "arrives", response |-> 0]]
  /\ job_thread = <<>>

otherThanReload ==
  <<pc, chunkerVars, storeVars, traverseVars, scoreVars, searchVars, similarityVars, crawlVars>>

\* reload_all: "if background_jobs["status"] == "running": return ..., 409"
CheckRunning(r) ==
  /\ reload_request[r].pc = "arrives"
  /\ IF background_jobs.status = "running"
     THEN reload_request' = [reload_request EXCEPT ![r] = [pc |-> "done", response |-> 409]]
     ELSE reload_request' = [reload_request EXCEPT ![r].pc = "assign"]
  /\ UNCHANGED <<background_jobs, job_thread>>
  /\ UNCHANGED otherThanReload

\* reload_all: "background_jobs = {... "status": "running" ...}"
AssignRunning(r) ==
  /\ reload_request[r].pc = "assign"
  /\ background_jobs' = [status |-> "running", progress |-> 0, total |-> 0]
  /\ reload_request' = [reload_request EXCEPT ![r].pc = "start"]
  /\ UNCHANGED job_thread
  /\ UNCHANGED otherThanReload

\* reload_all: thread.start() and the return of the response
StartThread(r) ==
  /\ reload_request[r].pc = "start"
  /\ job_thread' = Append(job_thread, [pc |-> "read", started_by |-> r])
  /\ reload_request' = [reload_request EXCEPT ![r] = [pc |-> "done", response |-> 200]]
  /\ UNCHANGED background_jobs
  /\ UNCHANGED otherThanReload

\* process_all_urls_background: the manifest is read, it has n urls
ReadManifest(k) ==
  /\ k \in DOMAIN job_thread
  /\ job_thread[k].pc = "read"
  /\ \E n \in 0..MaxUrls :
       background_jobs' = [background_jobs EXCEPT !.total = n, !.progress = 0]
  /\ job_thread' = [job_thread EXCEPT ![k] = [@ EXCEPT !.pc = "urls"] @@ [i |-> 0, n |-> background_jobs'.total]]
  /\ UNCHANGED reload_request
  /\ UNCHANGED otherThanReload

\* process_all_urls_background: open() raises and the except block runs
ReadManifestFails(k) ==
  /\ k \in DOMAIN job_thread
  /\ job_thread[k].pc = "read"
  /\ background_jobs' = [background_jobs EXCEPT !.status = "failed"]
  /\ job_thread' = [job_thread EXCEPT ![k].pc = "finished"]
  /\ UNCHANGED reload_request
  /\ UNCHANGED otherThanReload

\* process_all_urls_background: one iteration of "for i, url in enumerate(urls)"
ProcessUrl(k) ==
  /\ k \in DOMAIN job_thread
  /\ job_thread[k].pc = "urls"
  /\ job_thread[k].i < job_thread[k].n
  /\ background_jobs' = [background_jobs EXCEPT !.progress = job_thread[k].i + 1]
  /\ job_thread' = [job_thread EXCEPT ![k].i = @ + 1]
  /\ UNCHANGED reload_request
  /\ UNCHANGED otherThanReload

\* process_all_urls_background: "background_jobs["status"] = "completed""
CompleteJob(k) ==
  /\ k \in DOMAIN job_thread
  /\ job_thread[k].pc = "urls"
  /\ job_thread[k].i = job_thread[k].n
  /\ background_jobs' = [background_jobs EXCEPT !.status = "completed"]
  /\ job_thread' = [job_thread EXCEPT ![k].pc = "finished"]
  /\ UNCHANGED reload_request
  /\ UNCHANGED otherThanReload

NextReload ==
  \/ \E r \in Requests : CheckRunning(r) \/ AssignRunning(r) \/ StartThread(r)
  \/ \E k \in Requests :
       ReadManifest(k) \/ ReadManifestFails(k) \/ ProcessUrl(k) \/ CompleteJob(k)

SpecReload == InitReload /\ [][NextReload]_vars

\* the worker threads that have not finished
RunningJobs == {k \in DOMAIN job_thread : job_thread[k].pc # "finished"}

\* C28: at most one reload_all background job runs at a time: under every
\* interleaving of concurrent requests, a request that arrives while a job
\* is running is answered 409 and no second worker thread is started.
C28_AtMostOneJobRunning == Cardinality(RunningJobs) <= 1


(***************************************************************************)
(* ConfluenceLoader.process_page_recursive.  A page is named by the number *)
(* of its cleaned url: _extract_confluence_links cleans every link it      *)
(* returns and cleaning a cleaned url changes nothing, so the              *)
(* membership tests on processed_urls are tests on these numbers.  The     *)
(* recursion is a stack of frames; a frame holds the links it has still to *)
(* follow as a set, because _extract_confluence_links returns list(set)    *)
(* and the order of the loop is any order.                                 *)
(***************************************************************************)
SitePages == 1..NumSitePages

\* the url main passes to process_page_recursive: the first page of the site
StartUrl == CHOOSE p \in SitePages : \A q \in SitePages : p <= q

\* the link graphs looked at: a page links to any of its two successors and
\* the start page, so chains, diamonds and cycles all occur
SiteLinks ==
  { [p \in SitePages |-> {q \in SitePages : \/ (q = p + 1 /\ p \in next)
                                     \/ (q = p + 2 /\ p \in skip)
                                     \/ (q = StartUrl /\ p \in back)}] :
      next \in SUBSET (1..(NumSitePages - 1)),
      skip \in SUBSET (1..(NumSitePages - 2)),
      back \in SUBSET SitePages }

\* a fresh loader in front of a site; at most one page cannot be fetched
InitCrawl ==
  /\ ChunkerIdle
  /\ StoreIdle
  /\ TraverseIdle
  /\ RetrievalIdle
  /\ SimilarityIdle
  /\ ReloadIdle
  /\ pc = "fresh"
  /\ \E links \in SiteLinks, depth_limit \in 0..MaxCrawlDepth,
        accessible \in {SitePages} \cup {SitePages \ {p} : p \in SitePages} :
       site = [links |-> links, accessible |-> accessible, max_depth |-> depth_limit]
  /\ processed_urls = {}
  /\ frames = <<>>
  /\ returned_pages = <<>>

otherThanCrawl ==
  <<chunkerVars, storeVars, traverseVars, scoreVars, searchVars, similarityVars, reloadVars>>

\* process_page_recursive(url, current_depth, max_depth) up to its loop:
\* the urls processed afterwards and, when the page was fetched, the frame
\* of the call
Enter(url, current_depth) ==
  IF current_depth > site.max_depth \/ url \in processed_urls
  THEN [entered |-> FALSE, processed |-> processed_urls]
  ELSE IF url \notin site.accessible
  THEN [entered |-> FALSE, processed |-> processed_urls \cup {url}]
  ELSE [entered   |-> TRUE,
        processed |-> processed_urls \cup {url},
        frame     |-> [url   |-> url,
                       depth |-> current_depth,
                       referenced_urls |-> IF current_depth < site.max_depth
                                           THEN site.links[url] ELSE {},
                       processed_pages |-> <<url>>]]

\* main: loader.process_page_recursive(url, max_depth = ...)
CallProcessPageRecursive ==
  /\ pc = "fresh"
  /\ LET e == Enter(StartUrl, 0)
     IN  /\ processed_urls' = e.processed
         /\ frames' = IF e.entered THEN <<e.frame>> ELSE <<>>
         /\ pc' = IF e.entered THEN "crawling" ELSE "returned"
  /\ UNCHANGED <<site, returned_pages>>
  /\ UNCHANGED otherThanCrawl

\* one iteration of "for ref_url in referenced_urls" up to the loop of the
\* call it makes; a call that returns [] at once leaves no frame
FollowLink ==
  /\ pc = "crawling"
  /\ LET top == frames[Len(frames)]
     IN  \E ref_url \in top.referenced_urls :
           LET e    == Enter(ref_url, top.depth + 1)
               rest == [frames EXCEPT ![Len(frames)].referenced_urls = @ \ {ref_url}]
           IN  /\ processed_urls' = e.processed
               /\ frames' = IF e.entered THEN Append(rest, e.frame) ELSE rest
  /\ UNCHANGED <<pc, site, returned_pages>>
  /\ UNCHANGED otherThanCrawl

\* "return processed_pages" and, in the caller, processed_pages.extend(sub_pages)
ReturnPages ==
  /\ pc = "crawling"
  /\ LET top == frames[Len(frames)]
     IN  /\ top.referenced_urls = {}
         /\ IF Len(frames) = 1
            THEN /\ returned_pages' = top.processed_pages
                 /\ frames' = <<>>
                 /\ pc' = "returned"
            ELSE /\ frames' = [SubSeq(frames, 1, Len(frames) - 1)
                                 EXCEPT ![Len(frames) - 1].processed_pages = @ \o top.processed_pages]
                 /\ UNCHANGED <<pc, returned_pages>>
  /\ UNCHANGED <<site, processed_urls>>
  /\ UNCHANGED otherThanCrawl

NextCrawl == CallProcessPageRecursive \/ FollowLink \/ ReturnPages

SpecCrawl == InitCrawl /\ [][NextCrawl]_vars

\* the urls at most d links away from the start url, links being read off
\* the pages that can be fetched
RECURSIVE WithinLinks(_)
WithinLinks(d) ==
  IF d = 0 THEN {StartUrl}
  ELSE LET near == WithinLinks(d - 1)
       IN  near \cup UNION {site.links[p] : p \in near \cap site.accessible}

\* C29: on a fresh loader process_page_recursive(url, 0, max_depth) returns
\* every accessible page that is reachable from url by following at most
\* max_depth links, whatever the link graph and the order of following.
C29_ReturnsEveryPageWithinDepth ==
  pc = "returned" =>
    (WithinLinks(site.max_depth) \cap site.accessible)
      \subseteq {returned_pages[i] : i \in DOMAIN returned_pages}

=============================================================================
